---- MODULE Spec2Model ----
(***************************************************************************)
(* A model of mu/interface.py: the presentation layer of the Mu editor.    *)
(*                                                                         *)
(* The module holds several specifications, one per component, over one    *)
(* set of variables.  A component's specification starts the variables of  *)
(* the other components at a fixed value and never changes them.           *)
(*                                                                         *)
(*   SpecPanes : Window with its two device-facing side panes              *)
(*               (REPLPane and FileSystemPane/MicrobitFileList).           *)
(*   SpecTabs  : Window.add_tab, FileTabs.removeTab and the modification   *)
(*               signal of the editing panes hosted in the tabs.           *)
(*   SpecLabel : one EditorPane, its construction and its label, for every *)
(*               path and text up to a bounded length.                     *)
(*   SpecAnnotations : one EditorPane under annotate_code,                 *)
(*               reset_annotations and clicks on the marker margin.        *)
(*   SpecZoom  : the font size of the FileSystemPane under set_font_size,  *)
(*               zoomIn and zoomOut.                                       *)
(*   SpecCopy  : ucopytree of every local tree up to a bounded depth onto  *)
(*               the device.                                               *)
(*   SpecDevice : umakedirs and urmtree on every device filesystem up to a *)
(*               bounded depth.                                            *)
(*   SpecList  : one file listing (LocalFileList or MicrobitFileList): its *)
(*               ls and the navigation by home, up and double click.       *)
(*   SpecBytes : REPLPane.process_bytes on every chunk up to a bounded     *)
(*               length, for texts up to a bounded number of lines.        *)
(*   SpecTerminal : one REPLPane from its construction on: connect, close, *)
(*               key presses, soft reboot and incoming bytes.              *)
(*   SpecTheme : Window.setup, add_tab, the side panes and set_theme, with *)
(*               the theme every pane was last given.                      *)
(***************************************************************************)
EXTENDS Integers, Sequences, FiniteSets, TLC

VARIABLES
    win,        \* Window: the side panes and their connection fields
    winOp,      \* the Window handler that ran last and its argument
    winPre,     \* the connection flags as they were when that handler began
    tabs,       \* FileTabs: the open tabs, left to right, with their panes
    current,    \* FileTabs.currentIndex(), -1 when there is no tab
    tabOp,      \* the tab operation that ran last, with what it was given
    ed,         \* one EditorPane (SpecLabel), or its constructor's arguments
    edOp,       \* "args" before construction, then the last operation
    ann,        \* the annotations of one EditorPane: markers, indicators, popups
    annOp,      \* the annotation operation that ran last, with its argument
    pointSize,  \* FileSystemPane.font.pointSize()
    zoomOp,     \* the font operation that ran last: its delta, the size before
    localTree,  \* the local directory given to ucopytree, and os.listdir's order
    dev,        \* the device filesystem: its directories and its files
    copyOut,    \* how ucopytree ended: exception, children attempted
    devOp,      \* the device tree utility that ran last: argument, calls, outcome
    fl,         \* a file listing (MuFileList): home, current_dir and its items
    flOp,       \* the listing operation that ran last, with what ls enumerated
    nav,        \* the listing's first home, and the directories entered and not left
    term,       \* REPLPane: its text, its cursor, its connection
    termOp,     \* the REPLPane handler that ran last: input, writes, outcome
    look,       \* Window.theme and the theme each pane was last given
    lookOp,     \* the Window operation that ran last in SpecTheme
    fm,         \* the two file listings of the file manager pane, as widgets
    fmOp        \* the drop or menu handler that ran last, and how it went

panesVars == <<win, winOp, winPre>>
tabsVars == <<tabs, current, tabOp>>
labelVars == <<ed, edOp>>
annVars == <<ann, annOp>>
zoomVars == <<pointSize, zoomOp>>
copyVars == <<localTree, dev, copyOut, devOp>>
listVars == <<fl, flOp, nav>>
termVars == <<term, termOp>>
themeVars == <<look, lookOp>>
fmVars == <<fm, fmOp>>

vars == <<panesVars, tabsVars, labelVars, annVars, zoomVars, copyVars, listVars, termVars, themeVars, fmVars>>

\* The variables of the other components, for each component.
notPanes == <<tabsVars, labelVars, annVars, zoomVars, copyVars, listVars, termVars, themeVars, fmVars>>
notTabs == <<panesVars, labelVars, annVars, zoomVars, copyVars, listVars, termVars, themeVars, fmVars>>
notLabel == <<panesVars, tabsVars, annVars, zoomVars, copyVars, listVars, termVars, themeVars, fmVars>>
notAnn == <<panesVars, tabsVars, labelVars, zoomVars, copyVars, listVars, termVars, themeVars, fmVars>>
notZoom == <<panesVars, tabsVars, labelVars, annVars, copyVars, listVars, termVars, themeVars, fmVars>>
notCopy == <<panesVars, tabsVars, labelVars, annVars, zoomVars, listVars, termVars, themeVars, fmVars>>
notList == <<panesVars, tabsVars, labelVars, annVars, zoomVars, copyVars, termVars, themeVars, fmVars>>
notTerm == <<panesVars, tabsVars, labelVars, annVars, zoomVars, copyVars, listVars, themeVars, fmVars>>
\* The file manager changes the device and the local directory as well.
notFm == <<panesVars, tabsVars, labelVars, annVars, zoomVars, listVars, termVars, themeVars>>
notTheme == <<tabsVars, labelVars, annVars, zoomVars, copyVars, listVars, termVars, fmVars>>

\* The other components stand still at these values.
CopyIdle ==
    /\ localTree = [tree |-> <<>>, order |-> <<>>]
    /\ dev = [dirs |-> {}, files |-> {}]
    /\ copyOut = [state |-> "idle"]
    /\ devOp = [op |-> "none"]

ListIdle ==
    /\ fl = [kind |-> "none"]
    /\ flOp = [op |-> "none"]
    /\ nav = [home |-> <<>>, entered |-> <<>>]

TermIdle ==
    /\ term = [connected |-> FALSE]
    /\ termOp = [op |-> "none"]

ThemeIdle ==
    /\ look = [ready |-> FALSE]
    /\ lookOp = "none"

FmIdle ==
    /\ fm = [shown |-> FALSE]
    /\ fmOp = [op |-> "none"]

LabelIdle ==
    /\ ed = [path |-> <<>>, text |-> <<>>, modified |-> FALSE]
    /\ edOp = "idle"

(***************************************************************************)
(* Window and its side panes                                               *)
(*                                                                         *)
(* win.fs / win.repl        : Window.fs / Window.repl is an object (TRUE)  *)
(*                            or still the class attribute None (FALSE)    *)
(* win.fsConnected          : Window.fs.microbit_fs.connected              *)
(* win.fsSerialOpen         : the pyserial handle of the device file list  *)
(* win.fsActive, fsVisible  : Window.fs.active, and whether it is shown    *)
(* win.replConnected        : Window.repl.connected                        *)
(* win.replSerialOpen       : the QSerialPort of the terminal is open      *)
(* win.replActive, replVisible                                             *)
(* win.log                  : the serial calls made by the running handler *)
(* win.raised               : the exception the handler ended with         *)
(***************************************************************************)
NoWindowPanes ==
    [fs |-> FALSE, fsConnected |-> FALSE, fsSerialOpen |-> FALSE,
     fsActive |-> FALSE, fsVisible |-> FALSE,
     repl |-> FALSE, replConnected |-> FALSE, replSerialOpen |-> FALSE,
     replActive |-> FALSE, replVisible |-> FALSE,
     log |-> <<>>, raised |-> "none"]

\* A handler starts with an empty call log and no pending exception.
Begin(w) == [w EXCEPT !.log = <<>>, !.raised = "none"]

Raise(w, exc) == [w EXCEPT !.raised = exc]

\* REPLPane.connect: QSerialPort.open fails when the device cannot be opened
\* (ok = FALSE) or when this QSerialPort is open already.
connect(w, ok) ==
    LET w1 == [w EXCEPT !.log = Append(@, "repl.connect")]
    IN  IF ok /\ ~w1.replSerialOpen
          THEN [w1 EXCEPT !.replSerialOpen = TRUE, !.replConnected = TRUE]
          ELSE Raise(w1, "IOError")

\* REPLPane.close
close(w) ==
    [w EXCEPT !.log = Append(@, "repl.close"),
              !.replSerialOpen = FALSE, !.replConnected = FALSE]

\* MicrobitFileList.open_serial: serial.open() raises when the port is open
\* already or cannot be opened; connected is set only after it returns.
open_serial(w, ok) ==
    LET w1 == [w EXCEPT !.log = Append(@, "fs.open_serial")]
    IN  IF ok /\ ~w1.fsSerialOpen
          THEN [w1 EXCEPT !.fsSerialOpen = TRUE, !.fsConnected = TRUE]
          ELSE Raise(w1, "SerialException")

\* MicrobitFileList.close_serial
close_serial(w) ==
    [w EXCEPT !.log = Append(@, "fs.close_serial"),
              !.fsSerialOpen = FALSE, !.fsConnected = FALSE]

\* Window.hide_fs
hide_fs(w) ==
    IF ~w.fs THEN Raise(w, "AttributeError")
    ELSE [w EXCEPT !.fsVisible = FALSE, !.fsActive = FALSE]

\* Window.hide_repl (the call of repl.close() is commented out in the source)
hide_repl(w) ==
    IF ~w.repl THEN Raise(w, "AttributeError")
    ELSE [w EXCEPT !.replVisible = FALSE, !.replActive = FALSE]

\* MicrobitFileList.__init__ as run by FileSystemPane.__init__:
\* microfs.get_serial() hands out a serial handle (it raises when there is no
\* device, ok = FALSE) and connected is set to True.
MicrobitFileList__init__(w, ok) ==
    IF ~ok THEN Raise(w, "IOError")
    ELSE [w EXCEPT !.fs = TRUE, !.fsSerialOpen = TRUE, !.fsConnected = TRUE,
                   !.fsActive = TRUE, !.fsVisible = FALSE]

\* Window.add_filesystem
add_filesystem(w, ok) ==
    LET w1 == MicrobitFileList__init__(w, ok)
    IN  IF w1.raised # "none" THEN w1 ELSE hide_fs(w1)

\* REPLPane.__init__: a fresh QSerialPort, connect(), connected = True.
\* When connect raises, no pane is made and Window.repl keeps its old value.
REPLPane__init__(w, ok) ==
    LET w1 == connect([w EXCEPT !.replSerialOpen = FALSE], ok)
    IN  IF w1.raised # "none"
          THEN [w EXCEPT !.log = w1.log, !.raised = w1.raised]
          ELSE [w1 EXCEPT !.repl = TRUE, !.replConnected = TRUE,
                          !.replActive = TRUE, !.replVisible = FALSE]

\* Window.add_repl
add_repl(w, ok) ==
    LET w1 == REPLPane__init__(w, ok)
    IN  IF w1.raised # "none" THEN w1 ELSE hide_repl(w1)

\* show_repl with the two serial calls in the wrong order: the terminal is
\* connected first and the device file list closed afterwards.
show_repl_open_first(w, ok) ==
    IF ~w.fs \/ ~w.repl THEN Raise(w, "AttributeError")
    ELSE
    LET w1 == IF ~w.replConnected THEN connect(w, ok) ELSE w
        w2 == IF w1.raised = "none" /\ w.fsConnected THEN close_serial(w1) ELSE w1
    IN  IF w2.raised # "none" THEN w2
        ELSE [w2 EXCEPT !.replVisible = TRUE, !.replActive = TRUE]

\* Window.show_repl.  self.fs is read first, self.repl only after the device
\* file list has been closed, so a missing pane raises at that point.
show_repl(w, ok) ==
    IF ~w.fs THEN Raise(w, "AttributeError")
    ELSE
    LET w1 == IF w.fsConnected THEN close_serial(w) ELSE w
        w2 == IF ~w1.repl THEN Raise(w1, "AttributeError")
              ELSE IF ~w1.replConnected THEN connect(w1, ok) ELSE w1
    IN  IF w2.raised # "none" THEN w2
        ELSE [w2 EXCEPT !.replVisible = TRUE, !.replActive = TRUE]

\* Window.show_fs
show_fs(w, ok) ==
    IF ~w.repl THEN Raise(w, "AttributeError")
    ELSE
    LET w1 == IF w.replConnected THEN close(w) ELSE w
        w2 == IF ~w1.fs THEN Raise(w1, "AttributeError")
              ELSE IF ~w1.fsConnected THEN open_serial(w1, ok) ELSE w1
    IN  IF w2.raised # "none" THEN w2
        ELSE [w2 EXCEPT !.fsVisible = TRUE, !.fsActive = TRUE]

Snapshot(w) == [fsConnected |-> w.fsConnected, replConnected |-> w.replConnected]

PanesInit ==
    /\ win = NoWindowPanes
    /\ winOp = "setup"
    /\ winPre = Snapshot(NoWindowPanes)

AddFilesystem ==
    \E ok \in BOOLEAN :
        /\ win' = add_filesystem(Begin(win), ok)
        /\ winOp' = "add_filesystem"
        /\ winPre' = Snapshot(win)
        /\ UNCHANGED notPanes

AddRepl ==
    \E ok \in BOOLEAN :
        /\ win' = add_repl(Begin(win), ok)
        /\ winOp' = "add_repl"
        /\ winPre' = Snapshot(win)
        /\ UNCHANGED notPanes

ShowRepl ==
    \E ok \in BOOLEAN :
        /\ win' = show_repl(Begin(win), ok)
        /\ winOp' = "show_repl"
        /\ winPre' = Snapshot(win)
        /\ UNCHANGED notPanes

HideRepl ==
    /\ win' = hide_repl(Begin(win))
    /\ winOp' = "hide_repl"
    /\ winPre' = Snapshot(win)
    /\ UNCHANGED notPanes

ShowFs ==
    \E ok \in BOOLEAN :
        /\ win' = show_fs(Begin(win), ok)
        /\ winOp' = "show_fs"
        /\ winPre' = Snapshot(win)
        /\ UNCHANGED notPanes

HideFs ==
    /\ win' = hide_fs(Begin(win))
    /\ winOp' = "hide_fs"
    /\ winPre' = Snapshot(win)
    /\ UNCHANGED notPanes

PanesNext ==
    \/ AddFilesystem
    \/ AddRepl
    \/ ShowRepl
    \/ HideRepl
    \/ ShowFs
    \/ HideFs

(***************************************************************************)
(* Claims about the side panes (checked under SpecPanes)                   *)
(***************************************************************************)
IsOpenCall(c) == c \in {"repl.connect", "fs.open_serial"}
IsCloseCall(c) == c \in {"repl.close", "fs.close_serial"}

\* C1: in every state reachable from setup by add_filesystem, add_repl,
\* show_repl, hide_repl, show_fs and hide_fs, the terminal pane's connected
\* flag and the device file list's connected flag are never both true.
C1_NeverBothConnected == ~(win.replConnected /\ win.fsConnected)

\* C2: hand-off ordering.  In show_repl a connected device file list is
\* closed strictly before the terminal's connect; in show_fs a connected
\* terminal is closed strictly before the file list's open_serial; within a
\* show operation no open of one side precedes the close of the other side.
C2_HandOffOrder ==
    /\ winOp \in {"show_repl", "show_fs"} =>
          \A i, j \in DOMAIN win.log :
              i < j => ~(IsOpenCall(win.log[i]) /\ IsCloseCall(win.log[j]))
    /\ (winOp = "show_repl" /\ winPre.fsConnected) =>
          \E i \in DOMAIN win.log :
              /\ win.log[i] = "fs.close_serial"
              /\ \A j \in DOMAIN win.log : win.log[j] = "repl.connect" => i < j
    /\ (winOp = "show_fs" /\ winPre.replConnected) =>
          \E i \in DOMAIN win.log :
              /\ win.log[i] = "repl.close"
              /\ \A j \in DOMAIN win.log : win.log[j] = "fs.open_serial" => i < j

\* A show_repl that found the device file list connected, closed it and then
\* connected the terminal.
C2_Witness ==
    /\ winOp = "show_repl"
    /\ winPre.fsConnected
    /\ win.log = <<"fs.close_serial", "repl.connect">>
    /\ win.raised = "none"

\* C23: in every state reachable after both side panes have been added, by
\* any sequence of show_repl, hide_repl, show_fs and hide_fs, a
\* device-facing pane whose active flag is true holds an open connection:
\* terminal pane active implies terminal connected, and file manager pane
\* active implies device file list connected.
C23_ActiveImpliesConnected ==
    (win.fs /\ win.repl) =>
        /\ win.replActive => win.replConnected
        /\ win.fsActive => win.fsConnected

\* The pane that a show operation has just shown is active and connected.
C23_ShownPaneIsConnected ==
    /\ (winOp = "show_repl" /\ win.raised = "none") =>
          win.replActive /\ win.replConnected
    /\ (winOp = "show_fs" /\ win.raised = "none") =>
          win.fsActive /\ win.fsConnected

(***************************************************************************)
(* Strings are sequences of one-character strings.  A path argument is     *)
(* Python's None (NoPath) or a string (SomePath(s)).                       *)
(***************************************************************************)
NoPath == <<>>
SomePath(s) == <<s>>

untitled == <<"u", "n", "t", "i", "t", "l", "e", "d">>
star == <<" ", "*">>

\* str.rfind('/') + 1: the position after the last slash, 0 when there is none
\* (positions count from 0 as in Python).
rfindSlash1(p) ==
    LET slashes == {i \in 1..Len(p) : p[i] = "/"}
    IN  IF slashes = {} THEN 0
        ELSE CHOOSE i \in slashes : \A j \in slashes : j <= i

\* os.path.basename
basename(p) == SubSeq(p, rfindSlash1(p) + 1, Len(p))

\* Python truth of self.path: None and the empty string are false.
Truthy(path) == path # NoPath /\ path[1] # <<>>

\* EditorPane.__init__ without its setModified(False): the pane keeps the
\* modification state that setText left.
EditorPane__init__keeps_dirty(path, text, dirty) ==
    [path |-> path, text |-> text, modified |-> dirty]

\* EditorPane.__init__: setText(text) leaves the buffer in some modification
\* state (dirty), setModified(False) then clears it.
EditorPane__init__(path, text, dirty) ==
    LET afterSetText == [path |-> path, text |-> text, modified |-> dirty]
    IN  [afterSetText EXCEPT !.modified = FALSE]

\* EditorPane.label
label(pane) ==
    LET l == IF Truthy(pane.path) THEN basename(pane.path[1]) ELSE untitled
    IN  IF pane.modified THEN l \o star ELSE l

(***************************************************************************)
(* The tabbed document container                                           *)
(*                                                                         *)
(* tabs[i].pane : the EditorPane hosted in the tab                         *)
(* tabs[i].text : the text shown on the tab (QTabWidget.tabText)           *)
(* tabs[i].slot : new_tab_index as captured by the pane's on_modified      *)
(* Indices are Python's: tab k is tabs[k + 1].                             *)
(***************************************************************************)
MaxTabs == 2

TabPaths == {NoPath, SomePath(<<"d", "/", "b">>)}
TabTexts == {<<"x">>}

RemoveAt(seq, i) == SubSeq(seq, 1, i - 1) \o SubSeq(seq, i + 1, Len(seq))

\* QTabWidget.setTabText: an index that names no tab is ignored.
setTabText(ts, index, text) ==
    IF index >= 0 /\ index < Len(ts)
      THEN [ts EXCEPT ![index + 1].text = text]
      ELSE ts

\* The closure on_modified of add_tab, connected to modificationChanged of
\* the pane now at position k: it writes to the captured index.
on_modified(ts, k) == setTabText(ts, ts[k + 1].slot, label(ts[k + 1].pane))

\* QTabWidget.removeTab: the tab goes; the tab bar moves the current index
\* (a tab left of the current one shifts it down; removing the current tab
\* selects its right neighbour, or the left one when it was the last).
QTabWidget_removeTab(ts, cur, i) ==
    [tabs |-> RemoveAt(ts, i + 1),
     current |-> IF Len(ts) = 1 THEN -1
                 ELSE IF i < cur THEN cur - 1
                 ELSE IF i = cur /\ i = Len(ts) - 1 THEN i - 1
                 ELSE cur]

\* Window.current_tab
current_tab(ts, cur) == ts[cur + 1].pane

\* FileTabs.removeTab: answer is what show_confirmation returns when asked.
removeTab(ts, cur, tab_id, answer) ==
    LET modified == current_tab(ts, cur).modified
    IN  IF modified /\ answer = "Cancel"
          THEN [tabs |-> ts, current |-> cur, dialog |-> TRUE]
          ELSE [tabs |-> QTabWidget_removeTab(ts, cur, tab_id).tabs,
                current |-> QTabWidget_removeTab(ts, cur, tab_id).current,
                dialog |-> modified]

\* Window.add_tab
add_tab(ts, path, text, dirty) ==
    LET new_tab == EditorPane__init__(path, text, dirty)
        new_tab_index == Len(ts)
    IN  [tabs |-> Append(ts, [pane |-> new_tab, text |-> label(new_tab),
                              slot |-> new_tab_index]),
         current |-> new_tab_index]

TabsInit ==
    /\ tabs = <<>>
    /\ current = -1
    /\ tabOp = [op |-> "setup"]

AddTab ==
    \E path \in TabPaths, text \in TabTexts, dirty \in BOOLEAN :
        /\ Len(tabs) < MaxTabs
        /\ tabs' = add_tab(tabs, path, text, dirty).tabs
        /\ current' = add_tab(tabs, path, text, dirty).current
        /\ tabOp' = [op |-> "add_tab"]
        /\ UNCHANGED notTabs

\* A close request (tabCloseRequested) on any open tab.
RemoveTab ==
    \E tab_id \in 0..(Len(tabs) - 1), answer \in {"Ok", "Cancel"} :
        LET r == removeTab(tabs, current, tab_id, answer)
        IN  /\ tabs' = r.tabs
            /\ current' = r.current
            /\ tabOp' = [op |-> "removeTab", t |-> tab_id,
                         dialog |-> r.dialog, answer |-> answer]
            /\ UNCHANGED notTabs

\* The user selects another tab.
SelectTab ==
    \E i \in 0..(Len(tabs) - 1) :
        /\ i # current
        /\ current' = i
        /\ tabOp' = [op |-> "setCurrentIndex"]
        /\ UNCHANGED <<tabs, notTabs>>

\* The buffer of the focused pane changes its modification state (an edit,
\* or setModified(False) after a save): modificationChanged is emitted and
\* on_modified runs.
ModificationChanged ==
    /\ current >= 0
    /\ LET k == current
           ts1 == [tabs EXCEPT ![k + 1].pane.modified = ~@]
       IN  tabs' = on_modified(ts1, k)
    /\ tabOp' = [op |-> "modificationChanged", t |-> current]
    /\ UNCHANGED <<current, notTabs>>

TabsNext ==
    \/ AddTab
    \/ RemoveTab
    \/ SelectTab
    \/ ModificationChanged

(***************************************************************************)
(* Claims about the tabs (checked under SpecTabs)                          *)
(***************************************************************************)

\* C3: for a close request on any tab index t, focused or not, the
\* confirmation dialog is shown if and only if the document of tab t is
\* modified; if the user cancels, the open tabs and every modified flag are
\* unchanged; if the user accepts or no dialog was needed, exactly tab t is
\* removed.
C3_CloseRequest ==
    [][tabOp'.op = "removeTab" =>
          LET t == tabOp'.t
              cancelled == tabOp'.dialog /\ tabOp'.answer = "Cancel"
          IN  /\ tabOp'.dialog <=> tabs[t + 1].pane.modified
              /\ cancelled => tabs' = tabs
              /\ ~cancelled => tabs' = RemoveAt(tabs, t + 1)]_vars

\* C8: the text displayed on every open tab equals the current label of the
\* editing pane hosted in that tab, and a modification change in one pane
\* never alters the displayed text of a different pane's tab.
C8_TabTextInSync ==
    [][/\ \A i \in DOMAIN tabs' : tabs'[i].text = label(tabs'[i].pane)
       /\ tabOp'.op = "modificationChanged" =>
              \A i \in DOMAIN tabs : i # tabOp'.t + 1 => tabs'[i].text = tabs[i].text]_vars

(***************************************************************************)
(* One editing pane and its label                                          *)
(***************************************************************************)
MaxPathLen == 3

PathChars == {"a", "/", " ", "*"}

Strings(n) == UNION {[1..k -> PathChars] : k \in 0..n}

LabelPaths == {NoPath} \cup {SomePath(s) : s \in Strings(MaxPathLen)}
LabelTexts == {<<>>, <<"a">>}

LabelInit ==
    /\ edOp = "args"
    /\ ed \in [path : LabelPaths, text : LabelTexts, modified : BOOLEAN]

\* EditorPane(path, text): ed.modified before construction stands for the
\* modification state in which setText leaves the buffer.
Construct ==
    /\ edOp = "args"
    /\ ed' = EditorPane__init__(ed.path, ed.text, ed.modified)
    /\ edOp' = "__init__"
    /\ UNCHANGED notLabel

\* The buffer is edited, or saved (setModified(False)).
SetModified ==
    /\ edOp # "args"
    /\ ed' = [ed EXCEPT !.modified = ~@]
    /\ edOp' = "setModified"
    /\ UNCHANGED notLabel

LabelNext ==
    \/ Construct
    \/ SetModified

(***************************************************************************)
(* Claims about the label (checked under SpecLabel)                        *)
(***************************************************************************)
EndsWith(s, suffix) ==
    /\ Len(s) >= Len(suffix)
    /\ SubSeq(s, Len(s) - Len(suffix) + 1, Len(s)) = suffix

\* The base name of a string, stated without a search: the suffix that holds
\* no slash and is the whole string or follows a slash.
IsBaseName(b, p) ==
    /\ EndsWith(p, b)
    /\ \A i \in DOMAIN b : b[i] # "/"
    /\ Len(b) = Len(p) \/ p[Len(p) - Len(b)] = "/"

\* A path is absent when it is None or the empty string.
Absent(path) == path = NoPath \/ path = SomePath(<<>>)

\* C7 as stated: right after construction the pane is unmodified; label is
\* the path's base name, or 'untitled' when the path is absent, with ' *'
\* appended if and only if the buffer is modified; so the label ends with
\* ' *' exactly when the buffer is modified.
C7_LabelAsStated ==
    edOp # "args" =>
        /\ edOp = "__init__" => ~ed.modified
        /\ \E b \in Strings(MaxPathLen) \cup {untitled} :
              /\ IF Absent(ed.path) THEN b = untitled
                                     ELSE IsBaseName(b, ed.path[1])
              /\ label(ed) = b \o (IF ed.modified THEN star ELSE <<>>)
        /\ EndsWith(label(ed), star) <=> ed.modified

\* C7 (amended): right after construction the pane is unmodified; label is
\* the path's base name, or 'untitled' when the path is absent, with ' *'
\* appended if and only if the buffer is modified; so the label
\* ends with ' *' whenever the buffer is modified, and the label of an
\* unmodified buffer ends with ' *' only when the base name itself does.
C7_Label ==
    edOp # "args" =>
        /\ edOp = "__init__" => ~ed.modified
        /\ \E b \in Strings(MaxPathLen) \cup {untitled} :
              /\ IF Absent(ed.path) THEN b = untitled
                                     ELSE IsBaseName(b, ed.path[1])
              /\ label(ed) = b \o (IF ed.modified THEN star ELSE <<>>)
              /\ (~ed.modified /\ EndsWith(label(ed), star)) => EndsWith(b, star)
        /\ ed.modified => EndsWith(label(ed), star)

\* A modified pane of a file in a directory: the label is the base name and
\* the mark.
C7_Witness ==
    /\ edOp = "setModified"
    /\ ed.path = SomePath(<<"/", "a">>)
    /\ ed.modified
    /\ label(ed) = <<"a", " ", "*">>

(***************************************************************************)
(* The annotations of one editing pane                                     *)
(*                                                                         *)
(* ann.indicators    : EditorPane.indicators, marker handle -> messages    *)
(* ann.markers       : the markers of the document, handle -> line         *)
(* ann.handleCurrent : the last marker handle the document handed out      *)
(* ann.fills         : the ranges filled with the squiggle indicator       *)
(* ann.annotation    : the popups, line -> text                            *)
(*                                                                         *)
(* A feedback map is a sequence of <<line, messages>> with distinct lines, *)
(* in the order in which the dict yields its items.  A message is a record *)
(* with a message text and, optionally, a column.  annOp.feedback keeps    *)
(* the feedback map given to an annotate_code that found the pane clean.   *)
(***************************************************************************)
MaxLine == 1        \* the document has the lines 0..MaxLine
MaxMessages == 1    \* messages per line
MaxHandle == 2      \* marker handles handed out in one run

ClearEnd == 999999

Lines == 0..MaxLine

\* The column a message may carry (the column of the spec's example).
Columns == {5}

\* A message without a column and a message with one; their texts differ, so
\* that the messages of two markers can be told apart.
Messages ==
    [message : {<<"E">>}] \cup [message : {<<"W">>}, column : Columns]

MessageLists == UNION {[1..k -> Messages] : k \in 1..MaxMessages}

\* The orders in which k distinct lines can come out of the dict.
LineOrders(k) ==
    {ls \in [1..k -> Lines] : \A i, j \in 1..k : i # j => ls[i] # ls[j]}

\* The feedback maps of exactly k lines.
FeedbacksOf(k) ==
    {[i \in 1..k |-> <<ls[i], ms[i]>>] :
        ls \in LineOrders(k), ms \in [1..k -> MessageLists]}

\* The feedback maps of at most n lines (each line takes one marker handle).
FeedbacksUpTo(n) == UNION {FeedbacksOf(k) : k \in 0..n}

EmptyMap == [x \in {} |-> 0]

\* Bind key k to value v in the map m (d[k] = v).
Put(m, k, v) == [x \in DOMAIN m \cup {k} |-> IF x = k THEN v ELSE m[x]]

\* EditorPane.__init__: indicators = {}, a document without markers.
NoAnnotations ==
    [indicators |-> EmptyMap, markers |-> EmptyMap, handleCurrent |-> 0,
     fills |-> {}, annotation |-> EmptyMap]

\* QsciScintilla.markerAdd: one more marker on the line, whatever the line
\* carries already; the handle is the next number of the document.
markerAdd(a, line) ==
    [a EXCEPT !.handleCurrent = @ + 1,
              !.markers = Put(@, a.handleCurrent + 1, line)]

\* QsciScintilla.fillIndicatorRange(line, col_start, line, col_end, n)
fillIndicatorRange(a, line, col_start, col_end) ==
    [a EXCEPT !.fills = @ \cup {[line |-> line, from |-> col_start, to |-> col_end]}]

\* QsciScintilla.clearIndicatorRange(line, from, line, to, n): the filled
\* ranges of that line lying between from and to are cleared.
clearIndicatorRange(a, line, from, to) ==
    [a EXCEPT !.fills = {r \in @ : ~(r.line = line /\ from <= r.from /\ r.to <= to)}]

\* message.get('column', 0)
get_column(message) ==
    IF "column" \in DOMAIN message THEN message.column ELSE 0

\* The inner loop with a range that starts at the column itself.
RECURSIVE annotate_messages_late_start(_, _, _, _)
annotate_messages_late_start(a, line_no, messages, i) ==
    IF i > Len(messages) THEN a
    ELSE LET col == get_column(messages[i])
             a1 == IF col # 0
                     THEN fillIndicatorRange(a, line_no, col, col + 1)
                     ELSE a
         IN  annotate_messages_late_start(a1, line_no, messages, i + 1)

\* The inner loop of annotate_code over the messages of one line.
RECURSIVE annotate_messages(_, _, _, _)
annotate_messages(a, line_no, messages, i) ==
    IF i > Len(messages) THEN a
    ELSE LET col == get_column(messages[i])
             a1 == IF col # 0
                     THEN fillIndicatorRange(a, line_no, col - 1, col + 1)
                     ELSE a
         IN  annotate_messages(a1, line_no, messages, i + 1)

\* EditorPane.annotate_code: the loop over feedback.items() from item i on.
RECURSIVE annotate_from(_, _, _)
annotate_from(a, feedback, i) ==
    IF i > Len(feedback) THEN a
    ELSE LET line_no == feedback[i][1]
             messages == feedback[i][2]
             a1 == markerAdd(a, line_no)
             marker_id == a1.handleCurrent
             a2 == [a1 EXCEPT !.indicators = Put(@, marker_id, messages)]
             a3 == annotate_messages(a2, line_no, messages, 1)
         IN  annotate_from(a3, feedback, i + 1)

annotate_code(a, feedback) == annotate_from(a, feedback, 1)

\* The loop of reset_annotations over the keys of self.indicators.
RECURSIVE clear_indicators(_, _)
clear_indicators(a, keys) ==
    IF keys = {} THEN a
    ELSE LET line_no == CHOOSE k \in keys : TRUE
         IN  clear_indicators(clearIndicatorRange(a, line_no, 0, ClearEnd),
                              keys \ {line_no})

\* EditorPane.reset_annotations
reset_annotations(a) ==
    LET a1 == [a EXCEPT !.annotation = EmptyMap]       \* clearAnnotations()
        a2 == [a1 EXCEPT !.markers = EmptyMap]         \* markerDeleteAll()
        a3 == clear_indicators(a2, DOMAIN a2.indicators)
    IN  [a3 EXCEPT !.indicators = EmptyMap]

\* QsciScintilla.markerLine: the line of the marker, -1 when it is gone.
markerLine(a, marker_id) ==
    IF marker_id \in DOMAIN a.markers THEN a.markers[marker_id] ELSE -1

\* EditorPane.get_marker_at_line: the first key of self.indicators (they were
\* inserted in rising order) whose marker is on the line; 0 stands for None.
get_marker_at_line(a, line) ==
    LET found == {h \in DOMAIN a.indicators : markerLine(a, h) = line}
    IN  IF found = {} THEN 0
        ELSE CHOOSE h \in found : \A g \in found : h <= g

IsSpace(c) == c \in {" ", "\n"}

\* str.strip()
RECURSIVE strip(_)
strip(str) ==
    IF str = <<>> THEN str
    ELSE IF IsSpace(Head(str)) THEN strip(Tail(str))
    ELSE IF IsSpace(str[Len(str)]) THEN strip(SubSeq(str, 1, Len(str) - 1))
    ELSE str

\* '\n'.join(i['message'] for i in messages)
RECURSIVE join(_, _)
join(messages, i) ==
    IF i > Len(messages) THEN <<>>
    ELSE IF i = Len(messages) THEN messages[i].message
    ELSE messages[i].message \o <<"\n">> \o join(messages, i + 1)

\* EditorPane.on_marker_clicked
on_marker_clicked(a, line) ==
    LET marker_id == get_marker_at_line(a, line)
    IN  IF marker_id = 0 THEN a
        ELSE IF line \in DOMAIN a.annotation
          THEN [a EXCEPT !.annotation =
                    [l \in DOMAIN a.annotation \ {line} |-> a.annotation[l]]]
          ELSE LET text == strip(join(a.indicators[marker_id], 1))
               IN  IF text # <<>>
                     THEN [a EXCEPT !.annotation = Put(@, line, text)]
                     ELSE a

\* A pane with no annotations: no marker, no filled range, no popup, and an
\* empty marker-to-feedback map.
Clean(a) ==
    /\ DOMAIN a.markers = {}
    /\ DOMAIN a.indicators = {}
    /\ a.fills = {}
    /\ DOMAIN a.annotation = {}

AnnInit ==
    /\ ann = NoAnnotations
    /\ annOp = [op |-> "__init__"]

AnnotateCode ==
    \E feedback \in FeedbacksUpTo(MaxHandle - ann.handleCurrent) :
        /\ ann' = annotate_code(ann, feedback)
        /\ annOp' = [op |-> "annotate_code", clean |-> Clean(ann),
                     feedback |-> IF Clean(ann) THEN feedback ELSE <<>>]
        /\ UNCHANGED notAnn

ResetAnnotations ==
    /\ ann' = reset_annotations(ann)
    /\ annOp' = [op |-> "reset_annotations"]
    /\ UNCHANGED notAnn

MarkerClicked ==
    \E line \in Lines :
        /\ ann' = on_marker_clicked(ann, line)
        /\ annOp' = [op |-> "on_marker_clicked", line |-> line]
        /\ UNCHANGED notAnn

AnnNext ==
    \/ AnnotateCode
    \/ ResetAnnotations
    \/ MarkerClicked

(***************************************************************************)
(* Claims about the annotations (checked under SpecAnnotations)            *)
(***************************************************************************)
MarkersOn(a, line) == {h \in DOMAIN a.markers : a.markers[h] = line}

\* C4: annotate_code(feedback) followed immediately by reset_annotations
\* leaves the pane with zero markers, zero filled indicator ranges on every
\* line, and an empty marker-to-feedback map.
C4_AnnotateThenReset ==
    [][(annOp.op = "annotate_code" /\ annOp'.op = "reset_annotations") =>
          /\ DOMAIN ann'.markers = {}
          /\ ann'.fills = {}
          /\ DOMAIN ann'.indicators = {}]_vars

C6_OneMarkerPerLine ==
    /\ \A line \in Lines : Cardinality(MarkersOn(ann, line)) <= 1
    /\ annOp.op = "reset_annotations" => DOMAIN ann.indicators = {}

\* The message lists recorded for the markers of a line, in the order in
\* which the markers were placed.
RECURSIVE MessagesOf(_, _)
MessagesOf(a, handles) ==
    IF handles = {} THEN <<>>
    ELSE LET h == CHOOSE x \in handles : \A y \in handles : x <= y
         IN  a.indicators[h] \o MessagesOf(a, handles \ {h})

\* The message texts of a line joined by newlines.
LineText(a, line) == join(MessagesOf(a, MarkersOn(a, line)), 1)

\* The popups without the one of the line.
Closed(a, line) ==
    [l \in DOMAIN a.annotation \ {line} |-> a.annotation[l]]

\* What a click on the line is to do to the pane a, giving the pane b.
ClickToggles(a, b, line) ==
    IF MarkersOn(a, line) = {} THEN b = a
    ELSE IF line \notin DOMAIN a.annotation
      THEN b = [a EXCEPT !.annotation = Put(@, line, LineText(a, line))]
      ELSE b = [a EXCEPT !.annotation = Closed(a, line)]

\* C20: for every line that carries a diagnostic marker, clicking its gutter
\* marker when no popup is open on that line opens a popup whose text is the
\* line's message texts joined by newlines, and clicking again closes it, so
\* two consecutive clicks restore the popup state; clicking a line that has
\* no marker changes nothing.
C20_MarkerClick ==
    /\ [][annOp'.op = "on_marker_clicked" =>
              ClickToggles(ann, ann', annOp'.line)]_vars
    /\ [](\A line \in Lines :
              on_marker_clicked(on_marker_clicked(ann, line), line) = ann)

\* On the lines that carry exactly one marker the click does toggle the
\* popup of the marker's messages, and on unmarked lines it does nothing.
C20_OneMarkerOnTheLine ==
    [][(/\ annOp'.op = "on_marker_clicked"
        /\ Cardinality(MarkersOn(ann, annOp'.line)) <= 1) =>
              ClickToggles(ann, ann', annOp'.line)]_vars

\* Two clicks in a row restore the popups in every state.
C20_TwoClicks ==
    \A line \in Lines :
        on_marker_clicked(on_marker_clicked(ann, line), line) = ann

(***************************************************************************)
(* The font size of the file manager pane                                  *)
(***************************************************************************)
DEFAULT_FONT_SIZE == 14
ZoomInLimit == 34
ZoomOutLimit == 4

MaxPointSize == 40      \* sizes given to set_font_size: 1..MaxPointSize
MaxDelta == 3           \* deltas given to zoomIn/zoomOut: -MaxDelta..MaxDelta

Min(a, b) == IF a <= b THEN a ELSE b
Max(a, b) == IF a >= b THEN a ELSE b

\* FileSystemPane.set_font_size: QFont.setPointSize ignores a size that is
\* not greater than 0.
set_font_size(old_size, new_size) ==
    IF new_size > 0 THEN new_size ELSE old_size

\* zoomIn without the cap at 34 points.
zoomIn_uncapped(old_size, delta) == set_font_size(old_size, old_size + delta)

\* FileSystemPane.zoomIn
zoomIn(old_size, delta) ==
    set_font_size(old_size, Min(old_size + delta, ZoomInLimit))

\* FileSystemPane.zoomOut
zoomOut(old_size, delta) ==
    set_font_size(old_size, Max(old_size - delta, ZoomOutLimit))

\* FileSystemPane.__init__: set_font_size() with its default.
ZoomInit ==
    /\ pointSize = DEFAULT_FONT_SIZE
    /\ zoomOp = [op |-> "__init__"]

SetFontSize ==
    \E new_size \in 1..MaxPointSize :
        /\ pointSize' = set_font_size(pointSize, new_size)
        /\ zoomOp' = [op |-> "set_font_size", delta |-> 0, before |-> pointSize]
        /\ UNCHANGED notZoom

ZoomIn ==
    \E delta \in (-MaxDelta)..MaxDelta :
        /\ zoomIn(pointSize, delta) <= MaxPointSize
        /\ pointSize' = zoomIn(pointSize, delta)
        /\ zoomOp' = [op |-> "zoomIn", delta |-> delta, before |-> pointSize]
        /\ UNCHANGED notZoom

ZoomOut ==
    \E delta \in (-MaxDelta)..MaxDelta :
        /\ zoomOut(pointSize, delta) <= MaxPointSize
        /\ pointSize' = zoomOut(pointSize, delta)
        /\ zoomOp' = [op |-> "zoomOut", delta |-> delta, before |-> pointSize]
        /\ UNCHANGED notZoom

ZoomNext ==
    \/ SetFontSize
    \/ ZoomIn
    \/ ZoomOut

(***************************************************************************)
(* Claims about the font size (checked under SpecZoom)                     *)
(***************************************************************************)
InRange(size) == ZoomOutLimit <= size /\ size <= ZoomInLimit

\* C9 as stated: for every starting font size and every delta, the font
\* size produced by each zoomIn and zoomOut call is at least 4 and at most
\* 34 points.
C9_AlwaysInRange ==
    zoomOp.op \in {"zoomIn", "zoomOut"} => InRange(pointSize)

\* C9 (amended): for every starting font size between 4 and 34 points and
\* every delta that is not negative, the font size produced by each zoomIn
\* and zoomOut call is at least 4 and at most 34 points (so it stays there
\* under any repeated sequence of such calls).
C9_InRangeStaysInRange ==
    (/\ zoomOp.op \in {"zoomIn", "zoomOut"}
     /\ InRange(zoomOp.before)
     /\ zoomOp.delta >= 0) => InRange(pointSize)

\* zoomIn by 2 from 33 points: the cap acts and the size is 34.
C9_Witness ==
    /\ zoomOp = [op |-> "zoomIn", delta |-> 2, before |-> 33]
    /\ pointSize = 34

(***************************************************************************)
(* The device tree utilities                                               *)
(*                                                                         *)
(* A path is the sequence of its segments below the root "/".  A local     *)
(* directory is a function from names to nodes; a node is absent ("-"), a  *)
(* file ("F", readable or not) or a directory ("D") with its own children. *)
(* dev.dirs and dev.files are the paths present on the device.             *)
(***************************************************************************)
MaxDepth == 2       \* nesting of the local tree given to ucopytree

Names == {"a", "b"}

NoKids == <<>>

RECURSIVE Trees(_)
Nodes(d) ==
    {[kind |-> "-", readable |-> TRUE, kids |-> NoKids],
     [kind |-> "F", readable |-> TRUE, kids |-> NoKids],
     [kind |-> "F", readable |-> FALSE, kids |-> NoKids]}
    \cup {[kind |-> "D", readable |-> TRUE, kids |-> t] : t \in Trees(d - 1)}

\* The directories nested at most d deep (Trees(0): the empty directory).
Trees(d) ==
    IF d = 0 THEN {[n \in Names |-> [kind |-> "-", readable |-> TRUE, kids |-> NoKids]]}
    ELSE [Names -> Nodes(d)]

\* The orders in which os.listdir may yield the names.
ListOrders == {o \in [1..Cardinality(Names) -> Names] : \A i, j \in DOMAIN o : i # j => o[i] # o[j]}

Front(path) == SubSeq(path, 1, Len(path) - 1)

NoException == [type |-> "none"]

\* The module neither defines nor imports the name Error that ucopytree
\* uses in 'except Error' and 'raise Error'.
ErrorIsDefined == FALSE

\* microfs.path_exists
path_exists(d, path) == path = <<>> \/ path \in d.dirs \/ path \in d.files

\* microfs.mkdir: an OSError when the path exists or its parent is no directory.
mkdir(d, path) ==
    IF path # <<>> /\ ~path_exists(d, path)
       /\ (Front(path) = <<>> \/ Front(path) \in d.dirs)
      THEN [dev |-> [d EXCEPT !.dirs = @ \cup {path}], exc |-> NoException]
      ELSE [dev |-> d, exc |-> [type |-> "OSError"]]

\* microfs.getcwd: the device's working directory is its root.
getcwd == "/"

\* umakedirs(name, serial): head and tail are os.path.split(name).  A missing
\* head is made first (nothing it raises gets out: mkdir's OSError is
\* swallowed below), then the leaf; any OSError of mkdir is ignored.
RECURSIVE umakedirs(_, _)
umakedirs(d, name) ==
    LET head == Front(name)
        tail == IF name = <<>> THEN "" ELSE name[Len(name)]
        recurse == head # <<>> /\ tail # "" /\ ~path_exists(d, head)
        d1 == IF recurse THEN umakedirs(d, head) ELSE d
    IN  IF recurse /\ tail = getcwd THEN d1
        ELSE mkdir(d1, name).dev

\* microfs.put2: an OSError when the local file cannot be read, the
\* target's directory is missing on the device, or the target is a directory.
put2(d, node, target) ==
    IF node.readable /\ (Front(target) = <<>> \/ Front(target) \in d.dirs)
       /\ target \notin d.dirs
      THEN [dev |-> [d EXCEPT !.files = @ \cup {target}], exc |-> NoException]
      ELSE [dev |-> d, exc |-> [type |-> "OSError"]]

\* os.listdir(src): the names present, in the directory's order.
listdir(tree, order) == SelectSeq(order, LAMBDA n : tree[n].kind # "-")

\* The except clauses of ucopytree, given the exception exc raised in the
\* try body for srcname/dstname.  Matching 'except Error' evaluates the name
\* Error first: unbound, it raises NameError in place of exc.
except_clauses(acc, exc, srcname, dstname) ==
    IF ~ErrorIsDefined THEN [acc EXCEPT !.exc = [type |-> "NameError"]]
    ELSE IF exc.type = "Error"
      THEN [acc EXCEPT !.errors = @ \o exc.args]
    ELSE IF exc.type = "OSError"
      THEN [acc EXCEPT !.errors = Append(@, <<srcname, dstname, "OSError">>)]
    ELSE [acc EXCEPT !.exc = exc]

\* ucopytree(src, dst, serial) on the local directory tree.  The result
\* holds the device, the children attempted so far (in order), and the
\* exception it ended with.
RECURSIVE ucopytree(_, _, _, _, _, _)
RECURSIVE copy_children(_, _, _, _, _, _, _)

\* The for loop of ucopytree from the i-th name on; acc.errors is the list
\* errors, acc.exc an exception that left the loop.
copy_children(tree, order, src, dst, names, i, acc) ==
    IF i > Len(names) \/ acc.exc.type # "none" THEN acc
    ELSE LET name == names[i]
             srcname == Append(src, name)
             dstname == Append(dst, name)
             acc1 == [acc EXCEPT !.attempted = Append(@, srcname)]
             body == IF tree[name].kind = "D"
                       THEN ucopytree(tree[name].kids, order, srcname, dstname,
                                      acc1.dev, acc1.attempted)
                       ELSE [dev |-> put2(acc1.dev, tree[name], dstname).dev,
                             exc |-> put2(acc1.dev, tree[name], dstname).exc,
                             attempted |-> acc1.attempted]
             acc2 == [acc1 EXCEPT !.dev = body.dev, !.attempted = body.attempted]
             acc3 == IF body.exc.type = "none" THEN acc2
                     ELSE except_clauses(acc2, body.exc, srcname, dstname)
         IN  copy_children(tree, order, src, dst, names, i + 1, acc3)

ucopytree(tree, order, src, dst, d, attempted) ==
    LET names == listdir(tree, order)
        d1 == umakedirs(d, dst)
        acc == copy_children(tree, order, src, dst, names, 1,
                   [dev |-> d1, attempted |-> attempted, errors |-> <<>>,
                    exc |-> NoException])
    IN  IF acc.exc.type # "none"
          THEN [dev |-> acc.dev, attempted |-> acc.attempted, exc |-> acc.exc]
        ELSE IF acc.errors # <<>>
          THEN [dev |-> acc.dev, attempted |-> acc.attempted,
                exc |-> IF ErrorIsDefined
                          THEN [type |-> "Error", args |-> acc.errors]
                          ELSE [type |-> "NameError"]]
        ELSE [dev |-> acc.dev, attempted |-> acc.attempted, exc |-> NoException]

SrcRoot == <<"src">>
DstRoot == <<"dst">>

\* Any local directory, any listing order, a device without the target.
CopyInit ==
    /\ localTree \in [tree : Trees(MaxDepth), order : ListOrders]
    /\ dev = [dirs |-> {}, files |-> {}]
    /\ copyOut = [state |-> "pending"]
    /\ devOp = [op |-> "none"]

Ucopytree ==
    /\ copyOut.state = "pending"
    /\ LET r == ucopytree(localTree.tree, localTree.order, SrcRoot, DstRoot, dev, <<>>)
       IN  /\ dev' = r.dev
           /\ copyOut' = [state |-> "done", exc |-> r.exc, attempted |-> r.attempted]
    /\ UNCHANGED <<localTree, devOp, notCopy>>

CopyNext ==
    \/ Ucopytree

(***************************************************************************)
(* Claims about ucopytree (checked under SpecCopy)                         *)
(***************************************************************************)
\* Whether a node of the local tree is of the given sort.
IsOfSort(node, sort) ==
    CASE sort = "any" -> node.kind # "-"
      [] sort = "good file" -> node.kind = "F" /\ node.readable
      [] sort = "bad file" -> node.kind = "F" /\ ~node.readable
      [] sort = "directory" -> node.kind = "D"

\* The paths, below root, of the nodes of a local tree of the given sort.
RECURSIVE NodesOf(_, _, _)
NodesOf(tree, root, sort) ==
    UNION {(IF IsOfSort(tree[n], sort) THEN {Append(root, n)} ELSE {})
           \cup (IF tree[n].kind = "D"
                   THEN NodesOf(tree[n].kids, Append(root, n), sort)
                   ELSE {})
           : n \in Names}

\* The destination of a source path: the same path below DstRoot.
DstOf(srcpath) == DstRoot \o SubSeq(srcpath, Len(SrcRoot) + 1, Len(srcpath))

\* C10: ucopytree on a local directory in which the transfer of some
\* children fails attempts every child (files and subdirectories) whatever
\* failed earlier, transfers every child that can be transferred, and then
\* raises one bundled error whose entries are exactly the failed (source,
\* destination, cause) items; it returns normally only when no child failed.
C10_CollectsFailures ==
    copyOut.state = "done" =>
        LET tree == localTree.tree
            failed == NodesOf(tree, SrcRoot, "bad file")
        IN  /\ {copyOut.attempted[i] : i \in DOMAIN copyOut.attempted}
                  = NodesOf(tree, SrcRoot, "any")
            /\ dev.files = {DstOf(q) : q \in NodesOf(tree, SrcRoot, "good file")}
            /\ {DstOf(q) : q \in NodesOf(tree, SrcRoot, "directory")} \subseteq dev.dirs
            /\ copyOut.exc.type = "none" <=> failed = {}
            /\ failed # {} =>
                  /\ copyOut.exc.type = "Error"
                  /\ {copyOut.exc.args[i] : i \in DOMAIN copyOut.exc.args}
                        = {<<q, DstOf(q), "OSError">> : q \in failed}

(***************************************************************************)
(* umakedirs and urmtree on the device (SpecDevice)                        *)
(***************************************************************************)
\* The device directories nested at most d deep: every name is absent, a
\* file, or a directory.
RECURSIVE DevTrees(_)
DevNodes(d) ==
    {[kind |-> "-", readable |-> TRUE, kids |-> NoKids],
     [kind |-> "F", readable |-> TRUE, kids |-> NoKids]}
    \cup {[kind |-> "D", readable |-> TRUE, kids |-> t] : t \in DevTrees(d - 1)}

DevTrees(d) ==
    IF d = 0 THEN {[n \in Names |-> [kind |-> "-", readable |-> TRUE, kids |-> NoKids]]}
    ELSE [Names -> DevNodes(d)]

\* The paths of at most n segments (n >= 1).
RECURSIVE PathsUpTo(_)
PathsUpTo(n) ==
    IF n = 0 THEN {}
    ELSE {<<m>> : m \in Names}
         \cup PathsUpTo(n - 1)
         \cup {Append(q, m) : q \in PathsUpTo(n - 1), m \in Names}

\* microfs.ls2(serial, d=path): the (name, type) pairs of the children of
\* path, in the device's order.
ls2(d, path, order) ==
    LET present == SelectSeq(order, LAMBDA n : Append(path, n) \in d.dirs \cup d.files)
    IN  [i \in DOMAIN present |->
            <<present[i], IF Append(path, present[i]) \in d.dirs THEN "D" ELSE "F">>]

\* microfs.rm: removes a file or an empty directory; an OSError otherwise.
rm(d, path) ==
    IF path \in d.files
      THEN [dev |-> [d EXCEPT !.files = @ \ {path}], exc |-> NoException]
    ELSE IF path \in d.dirs
            /\ ~\E q \in d.dirs \cup d.files : q # <<>> /\ Front(q) = path
      THEN [dev |-> [d EXCEPT !.dirs = @ \ {path}], exc |-> NoException]
    ELSE [dev |-> d, exc |-> [type |-> "OSError"]]

\* urmtree(path, serial).  The result holds the device, the paths given to
\* microfs.rm so far (in order), and the exception it ended with.
RECURSIVE urmtree(_, _, _, _)
RECURSIVE urmtree_skips_files(_, _, _, _)
RECURSIVE rm_items(_, _, _, _, _, _)

\* The for loop of urmtree from the i-th item on.
rm_items(d, path, order, items, i, acc) ==
    IF i > Len(items) \/ acc.exc.type # "none" THEN acc
    ELSE LET name == items[i][1]
             item_type == items[i][2]
             full_path == Append(path, name)
             body == IF item_type = "D"
                       THEN urmtree(acc.dev, full_path, order, acc.log)
                       ELSE [dev |-> rm(acc.dev, full_path).dev,
                             log |-> Append(acc.log, full_path),
                             exc |-> rm(acc.dev, full_path).exc]
         IN  rm_items(d, path, order, items, i + 1, body)

\* A variant that leaves the file entries in place.
urmtree_skips_files(d, path, order, log) ==
    LET dirsOnly == SelectSeq(ls2(d, path, order), LAMBDA item : item[2] = "D")
        acc == rm_items(d, path, order, dirsOnly, 1,
                        [dev |-> d, log |-> log, exc |-> NoException])
    IN  IF acc.exc.type # "none" THEN acc
        ELSE [dev |-> rm(acc.dev, path).dev,
              log |-> Append(acc.log, path),
              exc |-> rm(acc.dev, path).exc]

urmtree(d, path, order, log) ==
    LET acc == rm_items(d, path, order, ls2(d, path, order), 1,
                        [dev |-> d, log |-> log, exc |-> NoException])
    IN  IF acc.exc.type # "none" THEN acc
        ELSE [dev |-> rm(acc.dev, path).dev,
              log |-> Append(acc.log, path),
              exc |-> rm(acc.dev, path).exc]

\* Any device filesystem; no utility has run.
DeviceInit ==
    /\ dev \in {[dirs |-> NodesOf(t, <<>>, "directory"),
                 files |-> NodesOf(t, <<>>, "good file")] : t \in DevTrees(MaxDepth)}
    /\ devOp = [op |-> "none"]
    /\ localTree = [tree |-> <<>>, order |-> <<>>]
    /\ copyOut = [state |-> "idle"]

Umakedirs ==
    /\ devOp.op = "none"
    /\ \E name \in PathsUpTo(MaxDepth) :
          /\ dev' = umakedirs(dev, name)
          /\ devOp' = [op |-> "umakedirs", path |-> name, pre |-> dev]
    /\ UNCHANGED <<localTree, copyOut, notCopy>>

Urmtree ==
    /\ devOp.op = "none"
    /\ \E path \in dev.dirs, order \in ListOrders :
          LET r == urmtree(dev, path, order, <<>>)
          IN  /\ dev' = r.dev
              /\ devOp' = [op |-> "urmtree", path |-> path, pre |-> dev,
                           log |-> r.log, exc |-> r.exc]
    /\ UNCHANGED <<localTree, copyOut, notCopy>>

DeviceNext ==
    \/ Umakedirs
    \/ Urmtree

(***************************************************************************)
(* Claims about umakedirs and urmtree (checked under SpecDevice)           *)
(***************************************************************************)
\* The ancestor chain of a path: its non-empty prefixes, the path included.
Chain(path) == {SubSeq(path, 1, k) : k \in 1..Len(path)}

\* C11: after umakedirs(p) returns, whatever the device held before, p and
\* every ancestor segment of p are directories on the device; what existed
\* before is left in place, and no directory outside the ancestor chain of
\* p is created.
C11_Umakedirs ==
    devOp.op = "umakedirs" =>
        /\ Chain(devOp.path) \subseteq dev.dirs
        /\ devOp.pre.dirs \subseteq dev.dirs
        /\ dev.files = devOp.pre.files
        /\ dev.dirs \subseteq devOp.pre.dirs \cup Chain(devOp.path)

\* The same with no file standing on the ancestor chain of p: the case in
\* which every mkdir either succeeds or finds the directory in place.
C11_UmakedirsNoFileInTheWay ==
    (devOp.op = "umakedirs" /\ Chain(devOp.path) \cap devOp.pre.files = {}) =>
        /\ Chain(devOp.path) \subseteq dev.dirs
        /\ devOp.pre.dirs \subseteq dev.dirs
        /\ dev.files = devOp.pre.files
        /\ dev.dirs \subseteq devOp.pre.dirs \cup Chain(devOp.path)

\* The entries of the device d at or below path.
Subtree(d, path) == {q \in d.dirs \cup d.files : path \in Chain(q)}

\* C12: urmtree(path) on a directory tree of the device returns; afterwards
\* neither path nor any descendant of it exists, every entry outside the
\* subtree is still there, and each entry was removed exactly once, a
\* directory only after all of its children.
C12_Urmtree ==
    devOp.op = "urmtree" =>
        LET log == devOp.log
            gone == Subtree(devOp.pre, devOp.path)
        IN  /\ devOp.exc.type = "none"
            /\ Subtree(dev, devOp.path) = {}
            /\ dev.dirs = devOp.pre.dirs \ gone
            /\ dev.files = devOp.pre.files \ gone
            /\ {log[i] : i \in DOMAIN log} = gone
            /\ \A i, j \in DOMAIN log :
                  /\ (i # j => log[i] # log[j])
                  /\ (Front(log[j]) = log[i] => j < i)

\* urmtree has removed a directory that held a file and a subdirectory
\* which itself held an entry.
C12_Witness ==
    /\ devOp.op = "urmtree"
    /\ devOp.exc.type = "none"
    /\ devOp.path = <<"a">>
    /\ <<"a", "a">> \in devOp.pre.files
    /\ <<"a", "b">> \in devOp.pre.dirs
    /\ <<"b">> \in dev.dirs \cup dev.files

(***************************************************************************)
(* The file listings (SpecList)                                            *)
(*                                                                         *)
(* Strings are sequences of characters.  fl.kind is "local" for a          *)
(* LocalFileList and "device" for a MicrobitFileList; fl.items are the     *)
(* QListWidgetItems top to bottom, each with its text, its colour and its  *)
(* data(256) = (type tag, full path).                                      *)
(***************************************************************************)
MaxEntries == 2     \* entries one enumeration of a directory returns
MaxDirLen == 5      \* a directory is entered while current_dir is shorter

EntryNames == {<<"a">>, <<"a", "b">>, <<".", "a">>}

Homes == {<<"/">>, <<"/", "h">>}

\* The code point of a character.
ord(c) ==
    CASE c = "." -> 46
      [] c = "/" -> 47
      [] c = "D" -> 68
      [] c = "F" -> 70
      [] c = "a" -> 97
      [] c = "b" -> 98
      [] c = "h" -> 104

\* Python's < on two strings.
RECURSIVE str_lt(_, _)
str_lt(x, y) ==
    IF y = <<>> THEN FALSE
    ELSE IF x = <<>> THEN TRUE
    ELSE IF ord(Head(x)) # ord(Head(y)) THEN ord(Head(x)) < ord(Head(y))
    ELSE str_lt(Tail(x), Tail(y))

\* The sort key lambda x: (x[1], x[0]) and Python's < on two such tuples.
key_lt(f, g) ==
    IF f[2] # g[2] THEN str_lt(<<f[2]>>, <<g[2]>>) ELSE str_lt(f[1], g[1])

\* list.sort(key=...): a stable insertion of each element in turn.
RECURSIVE insert_sorted(_, _)
insert_sorted(sorted, f) ==
    IF sorted = <<>> THEN <<f>>
    ELSE IF key_lt(f, Head(sorted)) THEN <<f>> \o sorted
    ELSE <<Head(sorted)>> \o insert_sorted(Tail(sorted), f)

RECURSIVE sort_by_key(_)
sort_by_key(files) ==
    IF files = <<>> THEN <<>>
    ELSE insert_sorted(sort_by_key(SubSeq(files, 1, Len(files) - 1)), files[Len(files)])

\* os.path.join(a, b) for a name b that does not start with "/".
os_path_join(a, b) ==
    IF a = <<>> \/ a[Len(a)] = "/" THEN a \o b ELSE a \o <<"/">> \o b

\* str.split("/")
RECURSIVE split(_)
split(str) ==
    LET slashes == {i \in 1..Len(str) : str[i] = "/"}
    IN  IF slashes = {} THEN <<str>>
        ELSE LET i == CHOOSE k \in slashes : \A j \in slashes : k <= j
             IN  <<SubSeq(str, 1, i - 1)>> \o split(SubSeq(str, i + 1, Len(str)))

\* "/".join(parts)
RECURSIVE join_slash(_)
join_slash(parts) ==
    IF parts = <<>> THEN <<>>
    ELSE IF Len(parts) = 1 THEN parts[1]
    ELSE parts[1] \o <<"/">> \o join_slash(Tail(parts))

\* MuFileList.parse_ls
parse_ls(l, files) ==
    [l EXCEPT !.items =
        [i \in DOMAIN files |->
            [text |-> files[i][1],
             colour |-> IF files[i][2] = "D" THEN "blue" ELSE "green",
             data |-> <<files[i][2], os_path_join(l.current_dir, files[i][1])>>]]]

\* MicrobitFileList.ls, given what microfs.ls2 returns.
MicrobitFileList_ls(l, microbit_files) == parse_ls(l, sort_by_key(microbit_files))

\* LocalFileList.ls, given os.listdir's names, each with "F" where
\* os.path.isfile is true of it.
LocalFileList_ls(l, listed) ==
    LET visible == SelectSeq(listed, LAMBDA f : Head(f[1]) # ".")
        local_files == [i \in DOMAIN visible |->
                           <<visible[i][1], IF visible[i][2] = "F" THEN "F" ELSE "D">>]
    IN  parse_ls(l, sort_by_key(local_files))

\* A variant of both that renders the entries as enumerated.
ls_unsorted(l, listed) ==
    parse_ls(l, IF l.kind = "local"
                  THEN SelectSeq(listed, LAMBDA f : Head(f[1]) # ".")
                  ELSE listed)

\* self.ls() of either listing
ls(l, listed) ==
    IF l.kind = "local" THEN LocalFileList_ls(l, listed)
    ELSE MicrobitFileList_ls(l, listed)

\* MuFileList.chdirHome
chdirHome(l, listed) == ls([l EXCEPT !.current_dir = l.home], listed)

\* A variant without the test for home.
chdirUp_unguarded(l, listed) ==
    LET new_path == SubSeq(split(l.current_dir), 1, Len(split(l.current_dir)) - 1)
    IN  ls([l EXCEPT !.current_dir = join_slash(new_path)], listed)

\* MuFileList.chdirUp
chdirUp(l, listed) ==
    IF l.current_dir # l.home
      THEN LET new_path == SubSeq(split(l.current_dir), 1, Len(split(l.current_dir)) - 1)
           IN  ls([l EXCEPT !.current_dir = join_slash(new_path)], listed)
      ELSE l

\* A variant that enters the directory from home.
itemDoubleClickedEvent_from_home(l, i, listed) ==
    IF l.items[i].data[1] = "F" THEN l
    ELSE ls([l EXCEPT !.current_dir = l.home \o <<"/">> \o l.items[i].text], listed)

\* itemDoubleClickedEvent of either listing on the item of row i: a
\* directory is entered; a file leaves the listing as it is.
itemDoubleClickedEvent(l, i, listed) ==
    IF l.items[i].data[1] = "F" THEN l
    ELSE ls([l EXCEPT !.current_dir = @ \o <<"/">> \o l.items[i].text], listed)

\* What one enumeration of a directory may return: up to MaxEntries
\* distinct names, each a file or a directory, in any order.
EnumerationsOf(k) ==
    {[i \in 1..k |-> <<ns[i], ts[i]>>] :
        ns \in {q \in [1..k -> EntryNames] : \A i, j \in 1..k : i # j => q[i] # q[j]},
        ts \in [1..k -> {"D", "F"}]}

Enumerations == UNION {EnumerationsOf(k) : k \in 0..MaxEntries}

\* LocalFileList.__init__ / MicrobitFileList.__init__: current_dir is home
\* and ls() has run.
ListInit ==
    \E kind \in {"local", "device"}, home \in Homes, listed \in Enumerations :
        /\ fl = ls([kind |-> kind, home |-> home, current_dir |-> home,
                    items |-> <<>>], listed)
        /\ flOp = [op |-> "__init__", ls |-> TRUE, listed |-> listed]
        /\ nav = [home |-> home, entered |-> <<>>]

ChdirHome ==
    /\ \E listed \in Enumerations :
          /\ fl' = chdirHome(fl, listed)
          /\ flOp' = [op |-> "chdirHome", ls |-> TRUE, listed |-> listed]
          /\ nav' = [nav EXCEPT !.entered = <<>>]
    /\ UNCHANGED notList

ChdirUp ==
    /\ \E listed \in Enumerations :
          /\ fl' = chdirUp(fl, listed)
          /\ flOp' = IF fl.current_dir # fl.home
                       THEN [op |-> "chdirUp", ls |-> TRUE, listed |-> listed]
                       ELSE [op |-> "chdirUp", ls |-> FALSE, listed |-> <<>>]
          /\ nav' = [nav EXCEPT !.entered = IF @ = <<>> THEN @ ELSE Front(@)]
    /\ UNCHANGED notList

ItemDoubleClicked ==
    /\ \E i \in DOMAIN fl.items, listed \in Enumerations :
          /\ fl.items[i].data[1] = "D" => Len(fl.current_dir) < MaxDirLen
          /\ fl' = itemDoubleClickedEvent(fl, i, listed)
          /\ flOp' = IF fl.items[i].data[1] = "D"
                       THEN [op |-> "enter", ls |-> TRUE, listed |-> listed]
                       ELSE [op |-> "open", ls |-> FALSE, listed |-> <<>>]
          /\ nav' = IF fl.items[i].data[1] = "D"
                      THEN [nav EXCEPT !.entered = Append(@, fl.items[i].text)]
                      ELSE nav
    /\ UNCHANGED notList

ListNext ==
    \/ ChdirHome
    \/ ChdirUp
    \/ ItemDoubleClicked

(***************************************************************************)
(* Claims about the file listings (checked under SpecList)                 *)
(***************************************************************************)
\* C13: chdirUp with current_dir equal to home leaves current_dir (and the
\* items) as they are and does not call ls; from any other current_dir it
\* removes exactly the last "/"-separated segment, separator included, and
\* calls ls.
C13_ChdirUp ==
    [][flOp'.op = "chdirUp" =>
          IF fl.current_dir = fl.home
            THEN fl' = fl /\ ~flOp'.ls
            ELSE /\ flOp'.ls
                 /\ fl'.home = fl.home
                 /\ \E seg \in EntryNames :
                       fl.current_dir = fl'.current_dir \o <<"/">> \o seg]_vars

\* chdirUp has gone from a directory two levels below home to its parent.
C13_Witness ==
    /\ flOp.op = "chdirUp"
    /\ flOp.ls
    /\ fl.home = <<"/", "h">>
    /\ fl.current_dir = <<"/", "h", "/", "a">>

\* The entries a listing shows of what was enumerated: all of them, less
\* the dot-prefixed names in a local listing.
Shown(l, listed) ==
    {listed[i] : i \in {j \in DOMAIN listed : l.kind = "local" => Head(listed[j][1]) # "."}}

\* C14: after ls, whatever the enumeration returned, the rendered list shows
\* all directory entries before all file entries, the entries of each group
\* in ascending name order, and exactly the enumerated entries (local: minus
\* the dot-prefixed names), each with its type tag and its full path under
\* current_dir.
C14_RenderedListing ==
    flOp.ls =>
        LET items == fl.items
        IN  /\ \A i, j \in DOMAIN items :
                  i < j => /\ (items[i].data[1] = "F" => items[j].data[1] = "F")
                           /\ (items[i].data[1] = items[j].data[1]
                                  => str_lt(items[i].text, items[j].text))
            /\ {<<items[i].text, items[i].data[1]>> : i \in DOMAIN items}
                  = Shown(fl, flOp.listed)
            /\ Len(items) = Cardinality(Shown(fl, flOp.listed))
            /\ \A i \in DOMAIN items :
                  items[i].data[2] =
                      (IF fl.current_dir[Len(fl.current_dir)] = "/"
                         THEN fl.current_dir \o items[i].text
                         ELSE fl.current_dir \o <<"/">> \o items[i].text)

\* The device returned a file before a directory whose name sorts lower;
\* the listing shows the directory first.
C14_Witness ==
    /\ flOp.ls
    /\ fl.kind = "device"
    /\ flOp.listed = << <<(<<".", "a">>), "F">>, <<(<<"a", "b">>), "D">> >>
    /\ Len(fl.items) = 2
    /\ fl.items[1].text = <<"a", "b">>
    /\ fl.items[2].data = <<"F", <<"/", "h", "/", ".", "a">> >>

\* home followed by the '/'-joined names.
Below(home, names) ==
    IF names = <<>> THEN home ELSE home \o <<"/">> \o join_slash(names)

\* Whether the string p starts with the string q.
StartsWith(p, q) == Len(q) <= Len(p) /\ SubSeq(p, 1, Len(q)) = q

\* C24: for each file listing, after any sequence of chdirHome, chdirUp and
\* enter-directory (double-click on a directory entry) operations, home is
\* unchanged and current_dir is either home or home followed by the
\* '/'-joined names of the directories entered and not yet left; chdirUp
\* never produces a directory above home, and entering a directory then
\* calling chdirUp restores the previous current_dir.
C24_Navigation ==
    /\ fl.home = nav.home
    /\ fl.current_dir = Below(nav.home, nav.entered)
    /\ flOp.op = "chdirUp" => StartsWith(fl.current_dir, nav.home)
    /\ \A i \in DOMAIN fl.items :
          fl.items[i].data[1] = "D" =>
              chdirUp(itemDoubleClickedEvent(fl, i, <<>>), <<>>).current_dir
                  = fl.current_dir

\* Two directories were entered and chdirUp has left the second: the
\* listing is one directory below home.
C24_Witness ==
    /\ flOp.op = "chdirUp"
    /\ flOp.ls
    /\ Len(nav.entered) = 1
    /\ fl.current_dir # fl.home
    /\ \E i \in DOMAIN fl.items : fl.items[i].data[1] = "D"

(***************************************************************************)
(* The terminal pane (REPLPane)                                            *)
(*                                                                         *)
(* term.lines is the text, line by line, each line the code points of its  *)
(* characters; term.cur is the text cursor: its line (from 1), its column  *)
(* (from 0) and the column x that vertical moves try to keep.  A chunk of  *)
(* bytes is a sequence of numbers 0..255, indexed from 0 in the source and *)
(* from 1 here: bs[i] of the source is bs[i + 1].                          *)
(***************************************************************************)
MaxChunkLen == 4    \* bytes in one chunk given to process_bytes
MaxLines == 4       \* lines of text in the pane before the chunk arrives

\* The bytes a chunk is made of: ESC [ 3 A K.
ChunkBytes == {27, 91, 51, 65, 75}

LineTexts == {<<>>, <<120>>, <<120, 121>>}

FullLine == <<120, 121>>

\* QTextCursor.movePosition, one step.  ok is its return value.
movePosition1(t, op) ==
    LET c == t.cur
        n == Len(t.lines)
    IN  CASE op = "Down" ->
               IF c.line = n THEN [t |-> t, ok |-> FALSE]
               ELSE [t |-> [t EXCEPT !.cur.line = c.line + 1,
                                     !.cur.col = Min(c.x, Len(t.lines[c.line + 1]))],
                     ok |-> TRUE]
          [] op = "Up" ->
               IF c.line = 1 THEN [t |-> t, ok |-> FALSE]
               ELSE [t |-> [t EXCEPT !.cur.line = c.line - 1,
                                     !.cur.col = Min(c.x, Len(t.lines[c.line - 1]))],
                     ok |-> TRUE]
          [] op = "Left" ->
               IF c.col > 0
                 THEN [t |-> [t EXCEPT !.cur.col = c.col - 1, !.cur.x = c.col - 1],
                       ok |-> TRUE]
               ELSE IF c.line > 1
                 THEN [t |-> [t EXCEPT !.cur = [line |-> c.line - 1,
                                                col |-> Len(t.lines[c.line - 1]),
                                                x |-> Len(t.lines[c.line - 1])]],
                       ok |-> TRUE]
               ELSE [t |-> t, ok |-> FALSE]
          [] op = "Right" ->
               IF c.col < Len(t.lines[c.line])
                 THEN [t |-> [t EXCEPT !.cur.col = c.col + 1, !.cur.x = c.col + 1],
                       ok |-> TRUE]
               ELSE IF c.line < n
                 THEN [t |-> [t EXCEPT !.cur = [line |-> c.line + 1, col |-> 0, x |-> 0]],
                       ok |-> TRUE]
               ELSE [t |-> t, ok |-> FALSE]
          [] op = "End" ->
               [t |-> [t EXCEPT !.cur = [line |-> n, col |-> Len(t.lines[n]),
                                         x |-> Len(t.lines[n])]],
                ok |-> TRUE]

\* QTextCursor.movePosition(op, n=count): count steps, stopping at the first
\* that cannot be made.
RECURSIVE movePosition(_, _, _)
movePosition(t, op, count) ==
    IF count <= 0 THEN t
    ELSE LET r == movePosition1(t, op)
         IN  IF r.ok THEN movePosition(r.t, op, count - 1) ELSE r.t

\* 'while tc.movePosition(QTextCursor.Down): pass'
RECURSIVE move_to_last_line(_)
move_to_last_line(t) ==
    LET r == movePosition1(t, "Down")
    IN  IF r.ok THEN move_to_last_line(r.t) ELSE r.t

\* QTextCursor.deleteChar: the character under the cursor, or the line break
\* when the cursor is at the end of a line that is not the last.
deleteChar(t) ==
    LET c == t.cur
        line == t.lines[c.line]
    IN  IF c.col < Len(line)
          THEN [t EXCEPT !.lines[c.line] =
                    SubSeq(line, 1, c.col) \o SubSeq(line, c.col + 2, Len(line))]
        ELSE IF c.line < Len(t.lines)
          THEN [t EXCEPT !.lines =
                    SubSeq(t.lines, 1, c.line - 1)
                    \o <<line \o t.lines[c.line + 1]>>
                    \o SubSeq(t.lines, c.line + 2, Len(t.lines))]
        ELSE t

\* insertPlainText(chr(b)) at the cursor; chr(10) breaks the line.
insertPlainText(t, b) ==
    LET c == t.cur
        line == t.lines[c.line]
    IN  IF b = 10
          THEN [t EXCEPT !.lines =
                    SubSeq(t.lines, 1, c.line - 1)
                    \o <<SubSeq(line, 1, c.col), SubSeq(line, c.col + 1, Len(line))>>
                    \o SubSeq(t.lines, c.line + 1, Len(t.lines)),
                         !.cur = [line |-> c.line + 1, col |-> 0, x |-> 0]]
          ELSE [t EXCEPT !.lines[c.line] =
                    SubSeq(line, 1, c.col) \o <<b>> \o SubSeq(line, c.col + 1, Len(line)),
                         !.cur = [line |-> c.line, col |-> c.col + 1, x |-> c.col + 1]]

\* movePosition(EndOfLine, KeepAnchor) followed by removeSelectedText.
removeToEndOfLine(t) ==
    [t EXCEPT !.lines[t.cur.line] = SubSeq(@, 1, t.cur.col), !.cur.x = t.cur.col]

\* bytes.decode('ascii', errors='ignore')
decode_ascii(bytes) == SelectSeq(bytes, LAMBDA b : b < 128)

IsDigit(ch) == ch \in 48..57
IsAction(ch) == ch \in {65, 66, 67, 68, 75}

\* re.search(r'(?P<count>[\d]*)(?P<action>[ABCDK])', str): the leftmost
\* position from which a (longest) run of digits is followed by an action
\* letter.  found is FALSE for None; start and end are offsets as in Python.
re_search(str) ==
    LET RunEnd(p) ==      \* index of the first non-digit at or after p
            IF \E q \in p..Len(str) : ~IsDigit(str[q])
              THEN CHOOSE q \in p..Len(str) :
                       /\ ~IsDigit(str[q])
                       /\ \A r \in p..(q - 1) : IsDigit(str[r])
              ELSE Len(str) + 1
        Matches(p) == RunEnd(p) <= Len(str) /\ IsAction(str[RunEnd(p)])
        starts == {p \in 1..Len(str) : Matches(p)}
    IN  IF starts = {} THEN [found |-> FALSE]
        ELSE LET p == CHOOSE q \in starts : \A r \in starts : q <= r
             IN  [found |-> TRUE,
                  count |-> SubSeq(str, p, RunEnd(p) - 1),
                  action |-> str[RunEnd(p)],
                  end |-> RunEnd(p)]

\* int(m.group("count")) of a string of decimal digits
RECURSIVE int(_)
int(digits) ==
    IF digits = <<>> THEN 0
    ELSE 10 * int(SubSeq(digits, 1, Len(digits) - 1)) + (digits[Len(digits)] - 48)

\* A variant that makes every move once, whatever the count.
escape_action_once(t, m) ==
    CASE m.action = 65 -> movePosition(t, "Up", 1)
      [] m.action = 66 -> movePosition(t, "Down", 1)
      [] m.action = 67 -> movePosition(t, "Right", 1)
      [] m.action = 68 -> movePosition(t, "Left", 1)
      [] m.action = 75 -> IF m.count = <<>> THEN removeToEndOfLine(t) ELSE t

\* The branch of process_bytes for ESC [ with the match m.
escape_action(t, m) ==
    LET count == IF m.count = <<>> THEN 1 ELSE int(m.count)
    IN  CASE m.action = 65 -> movePosition(t, "Up", count)
          [] m.action = 66 -> movePosition(t, "Down", count)
          [] m.action = 67 -> movePosition(t, "Right", count)
          [] m.action = 68 -> movePosition(t, "Left", count)
          [] m.action = 75 -> IF m.count = <<>> THEN removeToEndOfLine(t) ELSE t

\* The while loop of process_bytes from index i (as in the source, from 0).
\* trace lists, for every pass of the loop, the index it began at and the
\* last index it consumed.
RECURSIVE process_loop(_, _, _, _)
process_loop(t, bs, i, trace) ==
    IF ~(i < Len(bs)) THEN [t |-> t, exc |-> "none", trace |-> trace]
    ELSE
    LET b == bs[i + 1]
    IN  IF b = 8
          THEN process_loop(movePosition1(t, "Left").t, bs, i + 1,
                            Append(trace, [at |-> i, last |-> i]))
        ELSE IF b = 13
          THEN process_loop(t, bs, i + 1, Append(trace, [at |-> i, last |-> i]))
        ELSE IF b = 27 /\ ~(i + 1 < Len(bs))
          THEN [t |-> t, exc |-> "IndexError", trace |-> trace]
        ELSE IF b = 27 /\ bs[i + 2] = 91
          THEN LET i1 == i + 2
                   m == re_search(decode_ascii(SubSeq(bs, i1 + 1, Len(bs))))
               IN  IF ~m.found
                     THEN [t |-> t, exc |-> "AttributeError", trace |-> trace]
                     ELSE LET i2 == i1 + m.end - 1
                          IN  process_loop(escape_action(t, m), bs, i2 + 1,
                                           Append(trace, [at |-> i, last |-> i2]))
        ELSE IF b = 10
          THEN process_loop(insertPlainText(movePosition1(t, "End").t, b), bs, i + 1,
                            Append(trace, [at |-> i, last |-> i]))
        ELSE process_loop(insertPlainText(deleteChar(t), b), bs, i + 1,
                          Append(trace, [at |-> i, last |-> i]))

\* REPLPane.process_bytes
process_bytes(t, bs) == process_loop(move_to_last_line(t), bs, 0, <<>>)

\* The chunks of at most n bytes.
Chunks(n) == UNION {[1..k -> ChunkBytes] : k \in 0..n}

\* The texts of k lines: full lines above a last line of any length.
TextsOf(k) == {[i \in 1..k |-> IF i < k THEN FullLine ELSE last] : last \in LineTexts}

\* A connected pane holding some text, the cursor anywhere in it.
BytesInit ==
    /\ \E k \in 1..MaxLines :
         \E lines \in TextsOf(k) :
           \E l \in 1..k :
             \E c \in 0..Len(lines[l]) :
               term = [lines |-> lines, cur |-> [line |-> l, col |-> c, x |-> c],
                       connected |-> TRUE, serialOpen |-> TRUE]
    /\ termOp = [op |-> "none"]

\* on_serial_read with the chunk bs
OnSerialRead ==
    /\ termOp.op = "none"
    /\ \E bs \in Chunks(MaxChunkLen) :
          LET r == process_bytes(term, bs)
          IN  /\ term' = r.t
              /\ termOp' = [op |-> "process_bytes", bs |-> bs, pre |-> term,
                            exc |-> r.exc, trace |-> r.trace]
    /\ UNCHANGED notTerm

BytesNext ==
    \/ OnSerialRead

(***************************************************************************)
(* Claims about process_bytes (checked under SpecBytes)                    *)
(***************************************************************************)
\* What process_bytes did to the text and the cursor line for the chunk bs:
\* the cursor is on toLine and the text is as before but for its last line,
\* cut after the cursor when cut is TRUE.
BytesOutcome(toLine, cut) ==
    LET before == termOp.pre.lines
        n == Len(before)
    IN  /\ termOp.exc = "none"
        /\ term.cur.line = toLine
        /\ Len(term.lines) = n
        /\ \A l \in 1..(n - 1) : term.lines[l] = before[l]
        /\ ~cut => term.lines[n] = before[n]
        /\ cut => /\ term.cur.col <= Len(before[n])
                  /\ termOp.pre.cur.line = n => term.cur.col = termOp.pre.cur.col
                  /\ term.lines[n] = SubSeq(before[n], 1, term.cur.col)

\* C15 as stated: ESC [ 3 A leaves the cursor exactly 3 lines above the last
\* line, ESC [ A exactly one line above it, and ESC [ K deletes the text
\* from the cursor to the end of the line the cursor is on (the last one),
\* the text before the cursor and all other lines staying as they were.
C15_AsStated ==
    termOp.op = "process_bytes" =>
        LET n == Len(termOp.pre.lines)
        IN  /\ termOp.bs = <<27, 91, 51, 65>> => BytesOutcome(n - 3, FALSE)
            /\ termOp.bs = <<27, 91, 65>> => BytesOutcome(n - 1, FALSE)
            /\ termOp.bs = <<27, 91, 75>> => BytesOutcome(n, TRUE)

\* C15, amended: the cursor moves up n lines from the last line, or to the
\* first line when fewer than n lines lie above the last one; ESC [ K is as
\* stated.
C15_UpAsFarAsTheTextGoes ==
    termOp.op = "process_bytes" =>
        LET n == Len(termOp.pre.lines)
        IN  /\ termOp.bs = <<27, 91, 51, 65>> => BytesOutcome(Max(1, n - 3), FALSE)
            /\ termOp.bs = <<27, 91, 65>> => BytesOutcome(Max(1, n - 1), FALSE)
            /\ termOp.bs = <<27, 91, 75>> => BytesOutcome(n, TRUE)

\* ESC [ 3 A arrived with four lines of text and the cursor is on the first.
C15_Witness ==
    /\ termOp.op = "process_bytes"
    /\ termOp.bs = <<27, 91, 51, 65>>
    /\ Len(termOp.pre.lines) = 4
    /\ term.cur.line = 1
    /\ termOp.exc = "none"

\* C16: for every chunk process_bytes ends without an exception, and the
\* passes of its loop take the bytes in order, each byte in exactly one
\* pass: the first pass begins at index 0, every later pass at the index
\* after the last byte of the pass before (for an escape, its action
\* letter), and the last pass ends with the last byte of the chunk.
C16_EveryByteOnce ==
    termOp.op = "process_bytes" =>
        LET tr == termOp.trace
            bs == termOp.bs
        IN  /\ termOp.exc = "none"
            /\ bs # <<>> => /\ tr # <<>>
                            /\ tr[1].at = 0
                            /\ tr[Len(tr)].last = Len(bs) - 1
            /\ \A k \in DOMAIN tr :
                  /\ tr[k].at <= tr[k].last
                  /\ k > 1 => tr[k].at = tr[k - 1].last + 1
                  /\ (bs[tr[k].at + 1] = 27 /\ tr[k].last > tr[k].at)
                        => IsAction(bs[tr[k].last + 1])

(***************************************************************************)
(* The terminal pane's connection and keyboard (SpecTerminal)              *)
(*                                                                         *)
(* term.exists says whether the REPLPane has been constructed.  A handler  *)
(* returns the pane together with the messages it gave to serial.write, in *)
(* order, and the exception it ended with.                                 *)
(***************************************************************************)
Key_Backspace == 16777219
Key_Left == 16777234
Key_Up == 16777235
Key_Right == 16777236
Key_Down == 16777237
Key_A == 65
Key_V == 86
Key_Z == 90

Ports == {"COM3", "ttyACM0"}

\* The keys pressed: the special keys, letters, and the keys just outside
\* the letters ("@" and "[").
Keys == {Key_Backspace, Key_Left, Key_Up, Key_Right, Key_Down,
         Key_A, Key_V, Key_Z, 77, 64, 91}

Modifiers == {"NoModifier", "ControlModifier", "ControlModifier|ShiftModifier"}

\* data.text() and clipboard.text(): strings of code points ("a", e acute,
\* the euro sign).
TypedTexts == {<<>>, <<97>>, <<233>>, <<8364>>}

ClipboardTexts == {<<>>, <<97, 233>>}

NoTerminal ==
    [exists |-> FALSE, port |-> "", lines |-> << <<>> >>,
     cur |-> [line |-> 1, col |-> 0, x |-> 0],
     connected |-> FALSE, serialOpen |-> FALSE]

Returned(t, written) == [t |-> t, written |-> written, exc |-> [type |-> "none"]]

\* REPLPane.clear: setText('')
clear(t) == [t EXCEPT !.lines = << <<>> >>, !.cur = [line |-> 1, col |-> 0, x |-> 0]]

\* A variant of connect that leaves the text in place.
REPLPane_connect_keeps_text(t, ok) ==
    IF ok /\ ~t.serialOpen
      THEN Returned([t EXCEPT !.serialOpen = TRUE, !.connected = TRUE], << <<3>> >>)
      ELSE [t |-> t, written |-> <<>>, exc |-> [type |-> "IOError", port |-> t.port]]

\* REPLPane.connect: QSerialPort.open returns false when the device cannot
\* be opened (ok = FALSE) or when the port is open already.
REPLPane_connect(t, ok) ==
    IF ok /\ ~t.serialOpen
      THEN Returned([clear(t) EXCEPT !.serialOpen = TRUE, !.connected = TRUE],
                    << <<3>> >>)
      ELSE [t |-> t, written |-> <<>>, exc |-> [type |-> "IOError", port |-> t.port]]

\* REPLPane.__init__(port, ...): when connect raises, no pane comes to be.
REPLPane_construct(t, port, ok) ==
    LET r == REPLPane_connect([t EXCEPT !.port = port, !.serialOpen = FALSE], ok)
    IN  IF r.exc.type # "none" THEN [r EXCEPT !.t = t]
        ELSE [r EXCEPT !.t.exists = TRUE, !.t.connected = TRUE]

\* REPLPane.close
REPLPane_close(t) == Returned([t EXCEPT !.serialOpen = FALSE, !.connected = FALSE], <<>>)

\* REPLPane.soft_reboot
soft_reboot(t) == Returned(t, << <<4>> >>)

\* The UTF-8 encoding of one code point (below 65536).
utf8_char(cp) ==
    IF cp < 128 THEN <<cp>>
    ELSE IF cp < 2048 THEN <<192 + (cp \div 64), 128 + (cp % 64)>>
    ELSE <<224 + (cp \div 4096), 128 + ((cp \div 64) % 64), 128 + (cp % 64)>>

\* bytes(text, 'utf8')
RECURSIVE utf8(_)
utf8(text) == IF text = <<>> THEN <<>> ELSE utf8_char(Head(text)) \o utf8(Tail(text))

\* A variant that counts the control characters from 0.
keyPressEvent_from_zero(t, key, modifiers, text, clipboard) ==
    LET msg == IF key = Key_Backspace THEN <<8>>
               ELSE IF key = Key_Up THEN <<27, 91, 65>>
               ELSE IF key = Key_Down THEN <<27, 91, 66>>
               ELSE IF key = Key_Right THEN <<27, 91, 67>>
               ELSE IF key = Key_Left THEN <<27, 91, 68>>
               ELSE IF modifiers = "ControlModifier"
                 THEN IF key = Key_V THEN clipboard
                      ELSE IF Key_A <= key /\ key <= Key_Z THEN <<key - Key_A>>
                      ELSE utf8(text)
               ELSE utf8(text)
    IN  Returned(t, <<msg>>)

\* REPLPane.keyPressEvent.  The message for Control-V is the clipboard's
\* text itself, not an encoding of it.
keyPressEvent(t, key, modifiers, text, clipboard) ==
    LET msg == IF key = Key_Backspace THEN <<8>>
               ELSE IF key = Key_Up THEN <<27, 91, 65>>
               ELSE IF key = Key_Down THEN <<27, 91, 66>>
               ELSE IF key = Key_Right THEN <<27, 91, 67>>
               ELSE IF key = Key_Left THEN <<27, 91, 68>>
               ELSE IF modifiers = "ControlModifier"
                 THEN IF key = Key_V THEN clipboard
                      ELSE IF Key_A <= key /\ key <= Key_Z THEN <<1 + key - Key_A>>
                      ELSE utf8(text)
               ELSE utf8(text)
    IN  Returned(t, <<msg>>)

\* No REPLPane yet.
TerminalInit ==
    /\ term = NoTerminal
    /\ termOp = [op |-> "none"]

\* Window.add_repl: REPLPane(port=mb_port, ...)
TermConstruct ==
    /\ ~term.exists
    /\ \E port \in Ports, ok \in BOOLEAN :
          LET r == REPLPane_construct(term, port, ok)
          IN  /\ term' = r.t
              /\ termOp' = [op |-> "__init__", opened |-> ok, pre |-> term.lines,
                            written |-> r.written, exc |-> r.exc]
    /\ UNCHANGED notTerm

\* Window.show_repl: 'if not self.repl.connected: self.repl.connect()'
TermConnect ==
    /\ term.exists /\ ~term.connected
    /\ \E ok \in BOOLEAN :
          LET r == REPLPane_connect(term, ok)
          IN  /\ term' = r.t
              /\ termOp' = [op |-> "connect", opened |-> ok /\ ~term.serialOpen,
                            pre |-> term.lines, written |-> r.written, exc |-> r.exc]
    /\ UNCHANGED notTerm

\* Window.show_fs: 'if self.repl.connected: self.repl.close()'
TermClose ==
    /\ term.exists /\ term.connected
    /\ term' = REPLPane_close(term).t
    /\ termOp' = [op |-> "close", written |-> <<>>]
    /\ UNCHANGED notTerm

TermSoftReboot ==
    /\ term.exists
    /\ term' = soft_reboot(term).t
    /\ termOp' = [op |-> "soft_reboot", written |-> soft_reboot(term).written]
    /\ UNCHANGED notTerm

TermKeyPress ==
    /\ term.exists
    /\ \E key \in Keys, modifiers \in Modifiers, text \in TypedTexts,
          clipboard \in ClipboardTexts :
          LET r == keyPressEvent(term, key, modifiers, text, clipboard)
          IN  /\ term' = r.t
              /\ termOp' = [op |-> "keyPressEvent", key |-> key,
                            modifiers |-> modifiers, text |-> text,
                            clipboard |-> clipboard, written |-> r.written]
    /\ UNCHANGED notTerm

\* on_serial_read while the port is open; the text is kept to what one
\* one-byte chunk leaves in an empty pane.
TermSerialRead ==
    /\ term.exists /\ term.serialOpen
    /\ term.lines = << <<>> >>
    /\ \E bs \in Chunks(1) :
          LET r == process_bytes(term, bs)
          IN  /\ term' = r.t
              /\ termOp' = [op |-> "process_bytes", bs |-> bs, exc |-> r.exc]
    /\ UNCHANGED notTerm

TerminalNext ==
    \/ TermConstruct
    \/ TermConnect
    \/ TermClose
    \/ TermSoftReboot
    \/ TermKeyPress
    \/ TermSerialRead

(***************************************************************************)
(* Claims about the terminal pane (checked under SpecTerminal)             *)
(***************************************************************************)
\* C18: when connect (called by __init__ or by show_repl) gets the port
\* open, the display is cleared, exactly one byte 0x03 is written and
\* connected is true; when the port fails to open, an IOError naming the
\* port is raised, nothing is written and the pane is not marked connected.
\* After close, connected is false.
C18_ConnectAndClose ==
    /\ termOp.op \in {"__init__", "connect"} =>
          IF termOp.opened
            THEN /\ termOp.exc.type = "none"
                 /\ term.lines = << <<>> >>
                 /\ termOp.written = << <<3>> >>
                 /\ term.connected
            ELSE /\ termOp.exc.type = "IOError"
                 /\ termOp.exc.port \in Ports
                 /\ term.exists => termOp.exc.port = term.port
                 /\ termOp.written = <<>>
                 /\ ~term.connected
    /\ termOp.op = "close" => ~term.connected

\* A connect that found text in the pane, opened the port and cleared it.
C18_Witness ==
    /\ termOp.op = "connect"
    /\ termOp.opened
    /\ termOp.pre # << <<>> >>
    /\ term.lines = << <<>> >>
    /\ term.connected

\* The message the claim gives for a key event.
KeyMessage(key, modifiers, text, clipboard) ==
    CASE key = Key_Backspace -> <<8>>
      [] key = Key_Up -> <<27, 91, 65>>
      [] key = Key_Down -> <<27, 91, 66>>
      [] key = Key_Right -> <<27, 91, 67>>
      [] key = Key_Left -> <<27, 91, 68>>
      [] OTHER ->
           IF modifiers = "ControlModifier" /\ key = 86 THEN clipboard
           ELSE IF modifiers = "ControlModifier" /\ key \in 65..90
             THEN <<key - 64>>
           ELSE CASE text = <<>> -> <<>>
                  [] text = <<97>> -> <<97>>
                  [] text = <<233>> -> <<195, 169>>
                  [] text = <<8364>> -> <<226, 130, 172>>

ThemeNames == {"day", "night"}

\* Before Window.setup: no attribute theme, no tabs.
NoLook ==
    [ready |-> FALSE, theme |-> "none", styleSheet |-> "unset",
     tabThemes |-> <<>>, replStyle |-> "none", fsStyle |-> "none"]

\* REPLPane.set_theme: the style sheet it sets
REPLPane_set_theme(theme) == IF theme = "day" THEN "DAY_STYLE" ELSE "NIGHT_STYLE"

\* Window.set_theme
Window_set_theme(k, theme) ==
    LET new_theme == IF theme = "night" THEN "NightTheme" ELSE "DayTheme"
    IN  [k EXCEPT !.styleSheet = IF theme = "night" THEN "NIGHT_STYLE" ELSE "DAY_STYLE",
                  !.theme = theme,
                  !.tabThemes = [i \in DOMAIN k.tabThemes |-> new_theme],
                  !.replStyle = IF k.replStyle # "none"
                                  THEN REPLPane_set_theme(theme) ELSE @]

\* Window.setup
setup(k, theme) == Window_set_theme([k EXCEPT !.ready = TRUE, !.theme = theme], theme)

\* Window.add_tab for the theme: EditorPane.configure calls set_theme() with
\* its default DayTheme, then Window.set_theme(self.theme) runs.
add_tab_theme(k) ==
    Window_set_theme([k EXCEPT !.tabThemes = Append(@, "DayTheme")], k.theme)

\* Window.add_filesystem for the theme: FileSystemPane.__init__ sets no style
\* sheet and add_filesystem does not call the pane's set_theme.
add_filesystem_theme(k) == [k EXCEPT !.fsStyle = "unset"]

\* Window.add_repl for the theme: REPLPane(..., theme=self.theme), whose
\* __init__ ends with self.set_theme(theme).
add_repl_theme(k) == [k EXCEPT !.replStyle = REPLPane_set_theme(k.theme)]

ThemeInit ==
    /\ look = NoLook
    /\ lookOp = "__init__"
    /\ PanesInit

ThemeSetup ==
    /\ ~look.ready
    /\ \E theme \in ThemeNames : look' = setup(look, theme)
    /\ lookOp' = "setup"
    /\ UNCHANGED <<panesVars, notTheme>>

ThemeSetTheme ==
    /\ look.ready
    /\ \E theme \in ThemeNames : look' = Window_set_theme(look, theme)
    /\ lookOp' = "set_theme"
    /\ UNCHANGED <<panesVars, notTheme>>

ThemeAddTab ==
    /\ look.ready
    /\ Len(look.tabThemes) < MaxTabs
    /\ look' = add_tab_theme(look)
    /\ lookOp' = "add_tab"
    /\ UNCHANGED <<panesVars, notTheme>>

ThemeAddFilesystem ==
    /\ look.ready
    /\ \E ok \in BOOLEAN :
          /\ win' = add_filesystem(Begin(win), ok)
          /\ look' = IF win'.raised = "none" THEN add_filesystem_theme(look) ELSE look
    /\ winOp' = "add_filesystem"
    /\ winPre' = Snapshot(win)
    /\ lookOp' = "add_filesystem"
    /\ UNCHANGED notTheme

ThemeAddRepl ==
    /\ look.ready
    /\ \E ok \in BOOLEAN :
          /\ win' = add_repl(Begin(win), ok)
          /\ look' = IF win'.raised = "none" THEN add_repl_theme(look) ELSE look
    /\ winOp' = "add_repl"
    /\ winPre' = Snapshot(win)
    /\ lookOp' = "add_repl"
    /\ UNCHANGED notTheme

\* show_repl, hide_repl, show_fs and hide_fs: none of them sets a theme.
ThemeShowHide ==
    /\ look.ready
    /\ \E ok \in BOOLEAN, op \in {"show_repl", "hide_repl", "show_fs", "hide_fs"} :
          /\ win' = CASE op = "show_repl" -> show_repl(Begin(win), ok)
                      [] op = "hide_repl" -> hide_repl(Begin(win))
                      [] op = "show_fs" -> show_fs(Begin(win), ok)
                      [] op = "hide_fs" -> hide_fs(Begin(win))
          /\ winOp' = op
          /\ lookOp' = op
    /\ winPre' = Snapshot(win)
    /\ UNCHANGED <<look, notTheme>>

ThemeNext ==
    \/ ThemeSetup
    \/ ThemeSetTheme
    \/ ThemeAddTab
    \/ ThemeAddFilesystem
    \/ ThemeAddRepl
    \/ ThemeShowHide

C17_TabsAndTerminal ==
    look.ready =>
        LET paneTheme == IF look.theme = "night" THEN "NightTheme" ELSE "DayTheme"
            styleSheet == IF look.theme = "night" THEN "NIGHT_STYLE" ELSE "DAY_STYLE"
        IN  /\ \A i \in DOMAIN look.tabThemes : look.tabThemes[i] = paneTheme
            /\ look.replStyle \in {"none", styleSheet}

(***************************************************************************)
(* Drops and deletions in the file manager pane (SpecFiles)                *)
(*                                                                         *)
(* fm.local and fm.device are the LocalFileList and the MicrobitFileList   *)
(* of one FileSystemPane, each a listing as above with the two widget      *)
(* flags the handlers set: disabled (setDisabled) and acceptDrops          *)
(* (setAcceptDrops).  Both listings show their home directory.  The local  *)
(* home directory is localTree, the device is dev.  A handler is given the *)
(* state of the serial link: while it is down every microfs call raises    *)
(* an OSError and leaves the device as it is.                              *)
(***************************************************************************)
MaxNest == 1        \* nesting below the entries of the local home directory

LocalHome == <<"/", "h">>

Links == {"up", "down"}

\* A name of the trees as the text of a row, and back.
Text(n) == <<n>>
NameOf(text) == text[1]

\* The segments of a path given as a string.
Segments(str) ==
    LET parts == SelectSeq(split(str), LAMBDA part : part # <<>>)
    IN  [i \in DOMAIN parts |-> NameOf(parts[i])]

\* MuFileList.disable.  self and sibling name the two listings ("local" or
\* "device"); a drag inside one listing has that listing as its source.
disable(p, self, sibling) ==
    [p EXCEPT ![self].disabled = TRUE, ![sibling].disabled = TRUE,
              ![self].acceptDrops = FALSE, ![sibling].acceptDrops = FALSE]

\* A variant that leaves the sibling as it is.
enable_self_only(p, self, sibling) ==
    [p EXCEPT ![self].disabled = FALSE, ![self].acceptDrops = TRUE]

\* MuFileList.enable
enable(p, self, sibling) ==
    [p EXCEPT ![self].disabled = FALSE, ![sibling].disabled = FALSE,
              ![self].acceptDrops = TRUE, ![sibling].acceptDrops = TRUE]

\* QListWidget.dropEvent: the dragged item is copied into the listing.
QListWidget_dropEvent(p, self, item) ==
    [p EXCEPT ![self].items = Append(@, item)]

\* QListWidget.takeItem(row)
takeItem(l, row) ==
    [l EXCEPT !.items = SubSeq(@, 1, row - 1) \o SubSeq(@, row + 1, Len(@))]

\* What microfs.ls2 returns, with the names as strings.
microbit_files(d, current_dir, order) ==
    LET found == ls2(d, Segments(current_dir), order)
    IN  [i \in DOMAIN found |-> <<Text(found[i][1]), found[i][2]>>]

\* What os.listdir gives LocalFileList.ls, each name with "F" where
\* os.path.isfile is true of it.
local_files(lt) ==
    LET names == listdir(lt.tree, lt.order)
    IN  [i \in DOMAIN names |->
            <<Text(names[i]), IF lt.tree[names[i]].kind = "F" THEN "F" ELSE "D">>]

\* microfs.get(serial, path, target=local): the device file is written to
\* the local file; an OSError when the device has no such file or the local
\* name is a directory.
get(d, lt, path, name) ==
    IF path \in d.files /\ lt.tree[name].kind # "D"
      THEN [tree |-> [lt EXCEPT !.tree[name] =
                         [kind |-> "F", readable |-> TRUE, kids |-> NoKids]],
            exc |-> NoException]
      ELSE [tree |-> lt, exc |-> [type |-> "OSError"]]

\* An entry of the log: logger.info, logger.debug, or logger.error(ex).
Logged(level, exc) == [level |-> level, type |-> exc.type]

\* What the flags of the two listings are.
Flags(p) ==
    [l \in {"local", "device"} |->
        [disabled |-> p[l].disabled, acceptDrops |-> p[l].acceptDrops]]

\* MicrobitFileList.dropEvent for a drag of row i of the source listing.
\* The result holds the two listings, the device, what was logged, the flags
\* as they were when the transfer ended, and the exception that left the
\* handler.
MicrobitFileList_dropEvent(p, d, lt, source, i, link, order) ==
    LET p1 == disable(p, "device", source)
    IN  IF source = "local"
          THEN LET item == p1.local.items[i]
                   local_filename == item.text
                   local_fullpath == item.data[2]
                   isdir == item.data[1] = "D"
                   node == lt.tree[NameOf(local_filename)]
                   tail == split(local_fullpath)[Len(split(local_fullpath))]
                   micro_fullpath ==
                       os_path_join(p1.device.current_dir,
                                    IF isdir THEN tail ELSE local_filename)
                   copy == IF link = "down"
                             THEN [dev |-> d, exc |-> [type |-> "OSError"]]
                           ELSE IF isdir
                             THEN ucopytree(node.kids, lt.order,
                                            Segments(local_fullpath),
                                            Segments(micro_fullpath), d, <<>>)
                             ELSE put2(d, node, Segments(micro_fullpath))
                   p2 == IF isdir /\ copy.exc.type = "none"
                           THEN QListWidget_dropEvent(p1, "device", item)
                           ELSE p1
                   log == <<Logged("info", NoException)>>
                          \o (IF copy.exc.type = "none" THEN <<>>
                              ELSE <<Logged("error", copy.exc)>>)
               IN  IF link = "down"        \* self.ls() raises
                     THEN [p |-> p2, dev |-> copy.dev, log |-> log,
                           transfer |-> copy.exc, during |-> Flags(p2),
                           raised |-> [type |-> "OSError"]]
                     ELSE LET p3 == [p2 EXCEPT !.device =
                                        MicrobitFileList_ls(@,
                                            microbit_files(copy.dev, @.current_dir, order))]
                          IN  [p |-> enable(p3, "device", source),
                               dev |-> copy.dev, log |-> log,
                               transfer |-> copy.exc, during |-> Flags(p2),
                               raised |-> NoException]
          ELSE [p |-> enable(p1, "device", source), dev |-> d, log |-> <<>>,
                transfer |-> NoException, during |-> Flags(p1),
                raised |-> NoException]

\* LocalFileList.dropEvent for a drag of row i of the source listing.  The
\* result holds the local directory where the other holds the device.
LocalFileList_dropEvent(p, d, lt, source, i, link) ==
    LET p1 == disable(p, "local", source)
        item == p1.device.items[i]
        microbit_filename == item.text
        microbit_fullpath == item.data[2]
        fetch == IF link = "down"      \* microfs.get_serial() raises
                   THEN [tree |-> lt, exc |-> [type |-> "OSError"]]
                   ELSE get(d, lt, Segments(microbit_fullpath),
                            NameOf(microbit_filename))
        p2 == IF source = "device" /\ fetch.exc.type = "none"
                THEN QListWidget_dropEvent(p1, "local", item)
                ELSE p1
        lt1 == IF source = "device" THEN fetch.tree ELSE lt
        log == IF source # "device" THEN <<>>
               ELSE <<Logged("debug", NoException)>>
                    \o (IF link = "up" THEN <<Logged("info", NoException)>> ELSE <<>>)
                    \o (IF fetch.exc.type = "none" THEN <<>>
                        ELSE <<Logged("error", fetch.exc)>>)
        p3 == [p2 EXCEPT !.local = LocalFileList_ls(@, local_files(lt1))]
    IN  [p |-> enable(p3, "local", source), tree |-> lt1, log |-> log,
         transfer |-> IF source = "device" THEN fetch.exc ELSE NoException,
         during |-> Flags(p2), raised |-> NoException]

\* A variant that takes the row out before it removes the entry.
contextMenuEvent_row_first(p, d, i, link, order) ==
    LET item == p.device.items[i]
        dir_or_file == Segments(item.data[2])
        removal == IF link = "down"
                     THEN [dev |-> d, exc |-> [type |-> "OSError"]]
                   ELSE IF item.data[1] = "D"
                     THEN urmtree(d, dir_or_file, order, <<>>)
                     ELSE rm(d, dir_or_file)
    IN  [p |-> [p EXCEPT !.device = [takeItem(@, i) EXCEPT
                                        !.disabled = FALSE, !.acceptDrops = TRUE]],
         dev |-> removal.dev,
         log |-> <<Logged("error", IF removal.exc.type = "none"
                                     THEN [type |-> "NameError"]
                                     ELSE removal.exc)>>,
         removal |-> removal.exc, raised |-> NoException]

\* MicrobitFileList.contextMenuEvent when 'Delete (cannot be undone)' is
\* chosen with row i current.  After takeItem the try body formats a name
\* that the method never binds (microbit_filename): the NameError is caught
\* and logged like an error of the removal.
contextMenuEvent(p, d, i, link, order) ==
    LET p1 == [p EXCEPT !.device.disabled = TRUE, !.device.acceptDrops = FALSE]
        item == p1.device.items[i]
        dir_or_file == Segments(item.data[2])
        removal == IF link = "down"
                     THEN [dev |-> d, exc |-> [type |-> "OSError"]]
                   ELSE IF item.data[1] = "D"
                     THEN urmtree(d, dir_or_file, order, <<>>)
                     ELSE rm(d, dir_or_file)
        p2 == IF removal.exc.type = "none"
                THEN [p1 EXCEPT !.device = takeItem(@, i)]
                ELSE p1
    IN  [p |-> [p2 EXCEPT !.device.disabled = FALSE, !.device.acceptDrops = TRUE],
         dev |-> removal.dev,
         log |-> <<Logged("error", IF removal.exc.type = "none"
                                     THEN [type |-> "NameError"]
                                     ELSE removal.exc)>>,
         removal |-> removal.exc, raised |-> NoException]

\* FileSystemPane.__init__ constructs the two listings; each __init__ ends
\* with ls() of its home directory.
FileSystemPane_construct(d, lt, order) ==
    [local |-> LocalFileList_ls(
                   [kind |-> "local", home |-> LocalHome, current_dir |-> LocalHome,
                    items |-> <<>>, disabled |-> FALSE, acceptDrops |-> TRUE],
                   local_files(lt)),
     device |-> MicrobitFileList_ls(
                   [kind |-> "device", home |-> <<getcwd>>, current_dir |-> <<getcwd>>,
                    items |-> <<>>, disabled |-> FALSE, acceptDrops |-> TRUE],
                   microbit_files(d, <<getcwd>>, order))]

\* No entry, a readable file, an unreadable file.
Leaves ==
    {[kind |-> "-", readable |-> TRUE, kids |-> NoKids],
     [kind |-> "F", readable |-> TRUE, kids |-> NoKids],
     [kind |-> "F", readable |-> FALSE, kids |-> NoKids]}

\* The directories below the local home directory: at most one entry each,
\* a file or a directory of the same kind, d deep.
RECURSIVE SubDirs(_)
SubDirs(d) ==
    LET entries == Leaves \cup (IF d = 0 THEN {}
                                ELSE {[kind |-> "D", readable |-> TRUE, kids |-> t] :
                                         t \in SubDirs(d - 1)})
        first == CHOOSE n \in Names : TRUE
    IN  {[n \in Names |-> IF n = first THEN e
                          ELSE [kind |-> "-", readable |-> TRUE, kids |-> NoKids]] :
            e \in entries}

\* The local home directories: every name is absent, a file or a directory.
HomeDirs ==
    [Names -> Leaves \cup {[kind |-> "D", readable |-> TRUE, kids |-> t] :
                              t \in SubDirs(MaxNest - 1)}]

\* The devices at the start: files and empty directories in the root.
HomeDevices ==
    {[dirs |-> {<<n>> : n \in ds}, files |-> {<<n>> : n \in fs}] :
        ds \in SUBSET Names, fs \in SUBSET Names}

\* Any local home directory, any such device.
FmInit ==
    /\ localTree \in [tree : HomeDirs, order : ListOrders]
    /\ dev \in {d \in HomeDevices : d.dirs \cap d.files = {}}
    /\ fm = FileSystemPane_construct(dev, localTree, localTree.order)
    /\ fmOp = [op |-> "__init__"]
    /\ copyOut = [state |-> "idle"]
    /\ devOp = [op |-> "none"]

DropOnDevice ==
    /\ ~fm.device.disabled
    /\ fm.device.acceptDrops
    /\ \E source \in {"local", "device"}, link \in Links, order \in ListOrders :
          \E i \in DOMAIN fm[source].items :
          /\ ~fm[source].disabled
          /\ \E r \in {MicrobitFileList_dropEvent(fm, dev, localTree, source, i,
                                                  link, order)} :
                 /\ fm' = r.p
                 /\ dev' = r.dev
                 /\ fmOp' = [op |-> "dropEvent", self |-> "device",
                             source |-> source, link |-> link, log |-> r.log,
                             transfer |-> r.transfer, during |-> r.during,
                             raised |-> r.raised]
    /\ UNCHANGED <<localTree, copyOut, devOp, notFm>>

DropOnLocal ==
    /\ ~fm.local.disabled
    /\ fm.local.acceptDrops
    /\ \E source \in {"local", "device"}, link \in Links :
          \E i \in DOMAIN fm[source].items :
          /\ ~fm[source].disabled
          /\ \E r \in {LocalFileList_dropEvent(fm, dev, localTree, source, i, link)} :
                 /\ fm' = r.p
                 /\ localTree' = r.tree
                 /\ fmOp' = [op |-> "dropEvent", self |-> "local",
                             source |-> source, link |-> link, log |-> r.log,
                             transfer |-> r.transfer, during |-> r.during,
                             raised |-> r.raised]
    /\ UNCHANGED <<dev, copyOut, devOp, notFm>>

ContextMenuDelete ==
    /\ ~fm.device.disabled
    /\ \E i \in DOMAIN fm.device.items, link \in Links, order \in ListOrders :
          \E r \in {contextMenuEvent(fm, dev, i, link, order)} :
              /\ fm' = r.p
              /\ dev' = r.dev
              /\ fmOp' = [op |-> "contextMenuEvent", row |-> i, link |-> link,
                          before |-> fm.device.items, log |-> r.log,
                          removed |-> (dev.dirs \cup dev.files)
                                          \ (r.dev.dirs \cup r.dev.files),
                          removal |-> r.removal, raised |-> r.raised]
    /\ UNCHANGED <<localTree, copyOut, devOp, notFm>>

FmNext ==
    \/ DropOnDevice
    \/ DropOnLocal
    \/ ContextMenuDelete

(***************************************************************************)
(* Claims about drops and deletions (checked under SpecFiles)              *)
(***************************************************************************)
\* Both listings of the drop are disabled and reject drops in q.
Locked(q, op) ==
    \A l \in {op.self, op.source} : q[l].disabled /\ ~q[l].acceptDrops

\* Both listings of the drop are enabled and accept drops in q.
Unlocked(q, op) ==
    \A l \in {op.self, op.source} : ~q[l].disabled /\ q[l].acceptDrops

\* C21: for every drop handled by either file listing, both the receiving
\* listing and the source listing are disabled (and reject drops) from the
\* start of the handler until the transfer is over, and when the handler
\* finishes both are enabled and accept drops again, whether the transfer
\* succeeded or failed.
C21_DropLocksThenUnlocks ==
    fmOp.op = "dropEvent" =>
        /\ Locked(fmOp.during, fmOp)
        /\ Unlocked(fm, fmOp)

\* A drop on the local listing does end with both listings enabled, also
\* when the transfer failed.
C21_DropOnLocal ==
    (fmOp.op = "dropEvent" /\ fmOp.self = "local") =>
        /\ Locked(fmOp.during, fmOp)
        /\ Unlocked(fm, fmOp)

\* So does a drop on the device listing whose refresh returns.
C21_DropOnDeviceRefreshed ==
    (fmOp.op = "dropEvent" /\ fmOp.self = "device" /\ fmOp.raised.type = "none") =>
        /\ Locked(fmOp.during, fmOp)
        /\ Unlocked(fm, fmOp)

\* C22: when Delete is chosen for a device entry: if the removal on the
\* device (single file, or whole subtree for a directory) completes without
\* error, exactly that entry's row is removed from the visible list; if the
\* removal raises, the row stays and the error is logged; in both cases no
\* other row changes and the listing is enabled and accepts drops again
\* afterwards.
C22_Delete ==
    fmOp.op = "contextMenuEvent" =>
        LET before == fmOp.before
            after == fm.device.items
            row == fmOp.row
        IN  /\ fmOp.removal.type = "none" =>
                  /\ Len(after) = Len(before) - 1
                  /\ \A j \in DOMAIN after :
                        after[j] = IF j < row THEN before[j] ELSE before[j + 1]
            /\ fmOp.removal.type # "none" =>
                  /\ after = before
                  /\ \E k \in DOMAIN fmOp.log :
                        fmOp.log[k] = [level |-> "error", type |-> fmOp.removal.type]
            /\ ~fm.device.disabled
            /\ fm.device.acceptDrops
            /\ fmOp.raised.type = "none"

\* Delete of the first of two rows, a directory with an entry below it: the
\* subtree is gone from the device and the other row is left.
C22_Witness ==
    /\ fmOp.op = "contextMenuEvent"
    /\ fmOp.removal.type = "none"
    /\ fmOp.row = 1
    /\ Len(fmOp.before) = 2
    /\ fmOp.before[1].data[1] = "D"
    /\ Len(fm.device.items) = 1
    /\ Cardinality(fmOp.removed) = 2
    /\ dev.dirs \cup dev.files # {}

(***************************************************************************)
(* The specifications                                                      *)
(***************************************************************************)
InitPanes == PanesInit /\ TabsInit /\ LabelIdle /\ AnnInit /\ ZoomInit /\ CopyIdle /\ ListIdle /\ TermIdle /\ ThemeIdle /\ FmIdle

SpecPanes == InitPanes /\ [][PanesNext]_vars

InitTabs == TabsInit /\ PanesInit /\ LabelIdle /\ AnnInit /\ ZoomInit /\ CopyIdle /\ ListIdle /\ TermIdle /\ ThemeIdle /\ FmIdle

SpecTabs == InitTabs /\ [][TabsNext]_vars

InitLabel == LabelInit /\ PanesInit /\ TabsInit /\ AnnInit /\ ZoomInit /\ CopyIdle /\ ListIdle /\ TermIdle /\ ThemeIdle /\ FmIdle

SpecLabel == InitLabel /\ [][LabelNext]_vars

InitAnnotations == AnnInit /\ PanesInit /\ TabsInit /\ LabelIdle /\ ZoomInit /\ CopyIdle /\ ListIdle /\ TermIdle /\ ThemeIdle /\ FmIdle

SpecAnnotations == InitAnnotations /\ [][AnnNext]_vars

InitZoom == ZoomInit /\ PanesInit /\ TabsInit /\ LabelIdle /\ AnnInit /\ CopyIdle /\ ListIdle /\ TermIdle /\ ThemeIdle /\ FmIdle

SpecZoom == InitZoom /\ [][ZoomNext]_vars

InitCopy == CopyInit /\ PanesInit /\ TabsInit /\ LabelIdle /\ AnnInit /\ ZoomInit /\ ListIdle /\ TermIdle /\ ThemeIdle /\ FmIdle

SpecCopy == InitCopy /\ [][CopyNext]_vars

InitDevice == DeviceInit /\ PanesInit /\ TabsInit /\ LabelIdle /\ AnnInit /\ ZoomInit /\ ListIdle /\ TermIdle /\ ThemeIdle /\ FmIdle

SpecDevice == InitDevice /\ [][DeviceNext]_vars

InitList == ListInit /\ PanesInit /\ TabsInit /\ LabelIdle /\ AnnInit /\ ZoomInit /\ CopyIdle /\ TermIdle /\ ThemeIdle /\ FmIdle

SpecList == InitList /\ [][ListNext]_vars

InitBytes == BytesInit /\ PanesInit /\ TabsInit /\ LabelIdle /\ AnnInit /\ ZoomInit /\ CopyIdle /\ ListIdle /\ ThemeIdle /\ FmIdle

SpecBytes == InitBytes /\ [][BytesNext]_vars

InitTheme == ThemeInit /\ TabsInit /\ LabelIdle /\ AnnInit /\ ZoomInit /\ CopyIdle /\ ListIdle /\ TermIdle /\ FmIdle

SpecTheme == InitTheme /\ [][ThemeNext]_vars

InitTerminal == TerminalInit /\ PanesInit /\ TabsInit /\ LabelIdle /\ AnnInit /\ ZoomInit /\ CopyIdle /\ ListIdle /\ ThemeIdle /\ FmIdle

SpecTerminal == InitTerminal /\ [][TerminalNext]_vars

InitFiles == FmInit /\ PanesInit /\ TabsInit /\ LabelIdle /\ AnnInit /\ ZoomInit /\ ListIdle /\ TermIdle /\ ThemeIdle

SpecFiles == InitFiles /\ [][FmNext]_vars

====
